---- MODULE Spec2Model ----
(***************************************************************************)
(* The F1 23 telemetry packet codec: the ctypes record layouts of          *)
(* packets.py, the dispatch table HEADER_FIELD_TO_PACKET_TYPE, the decode  *)
(* path of TelemetryListener.get and the canonicalisation of PacketMixin.  *)
(*                                                                         *)
(* A buffer is a sequence of bytes (0..255).  A decoded record is what a   *)
(* ctypes structure is: a layout name and a private copy of sizeof(layout) *)
(* bytes; every field read decodes the bytes at the field's offset.        *)
(*                                                                         *)
(* Number representation.  TLC integers are 32 bit, so                     *)
(*   - an integer field of 1 or 2 bytes is a TLA+ integer;                 *)
(*   - an integer field of 4 or 8 bytes is the sequence of its 16-bit      *)
(*     limbs, least significant first (value = sum limb[j] * 65536^(j-1)); *)
(*   - a raw float is its IEEE-754 fields <<"f32", sign, exp, frac>> or    *)
(*     <<"f64", sign, exp, fracHi, fracLo>> (frac = fracHi * 2^26+fracLo); *)
(*   - a float rounded to 3 decimals is <<"dec3", sign, n>> (= n / 1000),  *)
(*     or the raw float itself when rounding leaves it unchanged.          *)
(***************************************************************************)
EXTENDS Integers, Sequences, FiniteSets, TLC

(***************************************************************************)
(* ctypes field types: kind, byte width of one element, signedness, the    *)
(* nested layout's name, and the arity (0 = not an array).                 *)
(***************************************************************************)
c_uint8 ==
  [kind |-> "int", w |-> 1, signed |-> FALSE, name |-> "", n |-> 0]

c_int8 ==
  [kind |-> "int", w |-> 1, signed |-> TRUE, name |-> "", n |-> 0]

c_uint16 ==
  [kind |-> "int", w |-> 2, signed |-> FALSE, name |-> "", n |-> 0]

c_int16 ==
  [kind |-> "int", w |-> 2, signed |-> TRUE, name |-> "", n |-> 0]

c_uint32 ==
  [kind |-> "int", w |-> 4, signed |-> FALSE, name |-> "", n |-> 0]

c_uint64 ==
  [kind |-> "int", w |-> 8, signed |-> FALSE, name |-> "", n |-> 0]

c_float ==
  [kind |-> "float", w |-> 4, signed |-> TRUE, name |-> "", n |-> 0]

c_double ==
  [kind |-> "float", w |-> 8, signed |-> TRUE, name |-> "", n |-> 0]

c_char ==
  [kind |-> "char", w |-> 1, signed |-> FALSE, name |-> "", n |-> 0]

\* A nested record (a Packet subclass or the event union) used as a field type.
Rec(nm) ==
  [kind |-> "rec", w |-> 0, signed |-> FALSE, name |-> nm, n |-> 0]

\* The ctypes array type  t * k.
Arr(t, k) ==
  [t EXCEPT !.n = k]

(***************************************************************************)
(* The _fields_ lists, in declaration order.                               *)
(***************************************************************************)
PacketHeader ==
  <<
    <<"packet_format", c_int16>>,
    <<"game_year", c_uint8>>,
    <<"game_major_version", c_uint8>>,
    <<"game_minor_version", c_uint8>>,
    <<"packet_version", c_uint8>>,
    <<"packet_id", c_uint8>>,
    <<"session_uid", c_uint64>>,
    <<"session_time", c_float>>,
    <<"frame_identifier", c_uint32>>,
    <<"overall_frame_identifier", c_uint32>>,
    <<"player_car_index", c_uint8>>,
    <<"secondary_player_car_index", c_uint8>>
  >>

CarMotionData ==
  <<
    <<"world_position_x", c_float>>,
    <<"world_position_y", c_float>>,
    <<"world_position_z", c_float>>,
    <<"world_velocity_x", c_float>>,
    <<"world_velocity_y", c_float>>,
    <<"world_velocity_z", c_float>>,
    <<"world_forward_dir_x", c_int16>>,
    <<"world_forward_dir_y", c_int16>>,
    <<"world_forward_dir_z", c_int16>>,
    <<"world_right_dir_x", c_int16>>,
    <<"world_right_dir_y", c_int16>>,
    <<"world_right_dir_z", c_int16>>,
    <<"g_force_lateral", c_float>>,
    <<"g_force_longitudinal", c_float>>,
    <<"g_force_vertical", c_float>>,
    <<"yaw", c_float>>,
    <<"pitch", c_float>>,
    <<"roll", c_float>>
  >>

PacketMotionData ==
  <<
    <<"header", Rec("PacketHeader")>>,
    <<"car_motion_data", Arr(Rec("CarMotionData"), 22)>>
  >>

MarshalZone ==
  <<
    <<"zone_start", c_float>>,
    <<"zone_flag", c_int8>>
  >>

WeatherForecastSample ==
  <<
    <<"session_type", c_uint8>>,
    <<"time_offset", c_uint8>>,
    <<"weather", c_uint8>>,
    <<"track_temperature", c_int8>>,
    <<"track_temperature_change", c_int8>>,
    <<"air_temperature", c_int8>>,
    <<"air_temperature_change", c_int8>>,
    <<"rain_percentage", c_uint8>>
  >>

PacketSessionData ==
  <<
    <<"header", Rec("PacketHeader")>>,
    <<"weather", c_uint8>>,
    <<"track_temperature", c_int8>>,
    <<"air_temperature", c_int8>>,
    <<"total_laps", c_uint8>>,
    <<"track_length", c_uint16>>,
    <<"session_type", c_uint8>>,
    <<"track_id", c_int8>>,
    <<"formula", c_uint8>>,
    <<"session_time_left", c_uint16>>,
    <<"session_duration", c_uint16>>,
    <<"pit_speed_limit", c_uint8>>,
    <<"game_paused", c_uint8>>,
    <<"is_spectating", c_uint8>>,
    <<"spectator_car_index", c_uint8>>,
    <<"sli_pro_native_support", c_uint8>>,
    <<"num_marshal_zones", c_uint8>>,
    <<"marshal_zones", Arr(Rec("MarshalZone"), 21)>>,
    <<"safety_car_status", c_uint8>>,
    <<"network_game", c_uint8>>,
    <<"num_weather_forecast_samples", c_uint8>>,
    <<"weather_forecast_samples", Arr(Rec("WeatherForecastSample"), 56)>>,
    <<"forecast_accuracy", c_uint8>>,
    <<"ai_difficulty", c_uint8>>,
    <<"season_link_identifier", c_uint32>>,
    <<"weekend_link_identifier", c_uint32>>,
    <<"session_link_identifier", c_uint32>>,
    <<"pit_stop_window_ideal_lap", c_uint8>>,
    <<"pit_stop_window_latest_lap", c_uint8>>,
    <<"pit_stop_rejoin_position", c_uint8>>,
    <<"steering_assist", c_uint8>>,
    <<"braking_assist", c_uint8>>,
    <<"gearbox_assist", c_uint8>>,
    <<"pit_assist", c_uint8>>,
    <<"pit_release_assist", c_uint8>>,
    <<"ers_assist", c_uint8>>,
    <<"drs_assist", c_uint8>>,
    <<"dynamic_racing_line", c_uint8>>,
    <<"dynamic_racing_line_type", c_uint8>>,
    <<"game_mode", c_uint8>>,
    <<"rule_set", c_uint8>>,
    <<"time_of_day", c_uint32>>,
    <<"session_length", c_uint8>>,
    <<"speed_units_lead_player", c_uint8>>,
    <<"temperature_units_lead_player", c_uint8>>,
    <<"speed_units_secondary_player", c_uint8>>,
    <<"temperature_units_secondary_player", c_uint8>>,
    <<"num_safety_car_periods", c_uint8>>,
    <<"num_virtual_safety_car_periods", c_uint8>>,
    <<"num_red_flag_periods", c_uint8>>
  >>

LapData ==
  <<
    <<"last_lap_time_in_ms", c_uint32>>,
    <<"current_lap_time_in_ms", c_uint32>>,
    <<"sector_1_time_in_ms", c_uint16>>,
    <<"sector_1_time_minutes", c_uint8>>,
    <<"sector_2_time_in_ms", c_uint16>>,
    <<"sector_2_time_minutes", c_uint8>>,
    <<"delta_to_car_in_front_in_ms", c_uint16>>,
    <<"delta_to_race_leader_in_ms", c_uint16>>,
    <<"lap_distance", c_float>>,
    <<"total_distance", c_float>>,
    <<"safety_car_delta", c_float>>,
    <<"car_position", c_uint8>>,
    <<"current_lap_num", c_uint8>>,
    <<"pit_status", c_uint8>>,
    <<"num_pit_stops", c_uint8>>,
    <<"sector", c_uint8>>,
    <<"current_lap_invalid", c_uint8>>,
    <<"penalties", c_uint8>>,
    <<"total_warnings", c_uint8>>,
    <<"corner_cutting_warnings", c_uint8>>,
    <<"num_unserved_drive_through_pens", c_uint8>>,
    <<"num_unserved_stop_go_pens", c_uint8>>,
    <<"grid_position", c_uint8>>,
    <<"driver_status", c_uint8>>,
    <<"result_status", c_uint8>>,
    <<"pit_lane_timer_active", c_uint8>>,
    <<"pit_lane_time_in_lane_in_ms", c_uint16>>,
    <<"pit_stop_timer_in_ms", c_uint16>>,
    <<"pit_stop_should_serve_pen", c_uint8>>
  >>

PacketLapData ==
  <<
    <<"header", Rec("PacketHeader")>>,
    <<"lap_data", Arr(Rec("LapData"), 22)>>,
    <<"time_trial_pb_car_idx", c_uint8>>,
    <<"time_trial_rival_car_idx", c_uint8>>
  >>

\* FastestLap with its two fields declared in the other order
FastestLap_swapped ==
  <<
    <<"lap_time", c_float>>,
    <<"vehicle_idx", c_uint8>>
  >>

\* FastestLap with a third field declared after the lap time
FastestLap_extra ==
  <<
    <<"vehicle_idx", c_uint8>>,
    <<"lap_time", c_float>>,
    <<"lap_num", c_uint8>>
  >>

FastestLap ==
  <<
    <<"vehicle_idx", c_uint8>>,
    <<"lap_time", c_float>>
  >>

Retirement ==
  <<
    <<"vehicle_idx", c_uint8>>
  >>

TeamMateInPits ==
  <<
    <<"vehicle_idx", c_uint8>>
  >>

RaceWinner ==
  <<
    <<"vehicle_idx", c_uint8>>
  >>

Penalty ==
  <<
    <<"penalty_type", c_uint8>>,
    <<"infringement_type", c_uint8>>,
    <<"vehicle_idx", c_uint8>>,
    <<"other_vehicle_idx", c_uint8>>,
    <<"time", c_uint8>>,
    <<"lap_num", c_uint8>>,
    <<"places_gained", c_uint8>>
  >>

SpeedTrap ==
  <<
    <<"vehicle_idx", c_uint8>>,
    <<"speed", c_float>>,
    <<"overall_fastest_in_session", c_uint8>>,
    <<"is_driver_fastest_in_session", c_uint8>>,
    <<"fastest_vehicle_idx_in_sSession", c_uint8>>,
    <<"fastest_speed_in_session", c_float>>
  >>

StartLights ==
  <<
    <<"num_lights", c_uint8>>
  >>

DriveThroughPenaltyServed ==
  <<
    <<"vehicle_idx", c_uint8>>
  >>

StopGoPenaltyServed ==
  <<
    <<"vehicle_idx", c_uint8>>
  >>

Flashback ==
  <<
    <<"flashback_frame_identifier", c_uint32>>,
    <<"flashback_session_time", c_float>>
  >>

Buttons ==
  <<
    <<"button_status", c_uint32>>
  >>

OverTake ==
  <<
    <<"overtaking_vehicle_idx", c_uint8>>,
    <<"being_overtaken_vehicle_idx", c_uint8>>
  >>

\* EventDataDetails with its last member left out
EventDataDetails_eleven ==
  <<
    <<"fastest_lap", Rec("FastestLap")>>,
    <<"retirement", Rec("Retirement")>>,
    <<"team_mate_in_pits", Rec("TeamMateInPits")>>,
    <<"race_winner", Rec("RaceWinner")>>,
    <<"penalty", Rec("Penalty")>>,
    <<"speed_trap", Rec("SpeedTrap")>>,
    <<"start_lights", Rec("StartLights")>>,
    <<"drive_through_penalty_served", Rec("DriveThroughPenaltyServed")>>,
    <<"stop_go_penalty_served", Rec("StopGoPenaltyServed")>>,
    <<"flashback", Rec("Flashback")>>,
    <<"buttons", Rec("Buttons")>>
  >>

EventDataDetails ==
  <<
    <<"fastest_lap", Rec("FastestLap")>>,
    <<"retirement", Rec("Retirement")>>,
    <<"team_mate_in_pits", Rec("TeamMateInPits")>>,
    <<"race_winner", Rec("RaceWinner")>>,
    <<"penalty", Rec("Penalty")>>,
    <<"speed_trap", Rec("SpeedTrap")>>,
    <<"start_lights", Rec("StartLights")>>,
    <<"drive_through_penalty_served", Rec("DriveThroughPenaltyServed")>>,
    <<"stop_go_penalty_served", Rec("StopGoPenaltyServed")>>,
    <<"flashback", Rec("Flashback")>>,
    <<"buttons", Rec("Buttons")>>,
    <<"overtake", Rec("OverTake")>>
  >>

\* PacketEventData with the event code declared as a character array
PacketEventData_code_char ==
  <<
    <<"header", Rec("PacketHeader")>>,
    <<"event_string_code", Arr(c_char, 4)>>,
    <<"event_details", Rec("EventDataDetails")>>
  >>

PacketEventData ==
  <<
    <<"header", Rec("PacketHeader")>>,
    <<"event_string_code", Arr(c_uint8, 4)>>,
    <<"event_details", Rec("EventDataDetails")>>
  >>

ParticipantData ==
  <<
    <<"ai_controlled", c_uint8>>,
    <<"driver_id", c_uint8>>,
    <<"network_id", c_uint8>>,
    <<"team_id", c_uint8>>,
    <<"my_team", c_uint8>>,
    <<"race_number", c_uint8>>,
    <<"nationality", c_uint8>>,
    <<"name", Arr(c_char, 48)>>,
    <<"your_telemetry", c_uint8>>,
    <<"show_online_names", c_uint8>>,
    <<"platform", c_uint8>>
  >>

PacketParticipantsData ==
  <<
    <<"header", Rec("PacketHeader")>>,
    <<"num_active_cars", c_uint8>>,
    <<"participants", Arr(Rec("ParticipantData"), 22)>>
  >>

CarSetupData ==
  <<
    <<"front_wing", c_uint8>>,
    <<"rear_wing", c_uint8>>,
    <<"on_throttle", c_uint8>>,
    <<"off_throttle", c_uint8>>,
    <<"front_camber", c_float>>,
    <<"rear_camber", c_float>>,
    <<"front_toe", c_float>>,
    <<"rear_toe", c_float>>,
    <<"front_suspension", c_uint8>>,
    <<"rear_suspension", c_uint8>>,
    <<"front_anti_roll_bar", c_uint8>>,
    <<"rear_anti_roll_bar", c_uint8>>,
    <<"front_suspension_height", c_uint8>>,
    <<"rear_suspension_height", c_uint8>>,
    <<"brake_pressure", c_uint8>>,
    <<"brake_bias", c_uint8>>,
    <<"rear_left_tyre_pressure", c_float>>,
    <<"rear_right_tyre_pressure", c_float>>,
    <<"front_left_tyre_pressure", c_float>>,
    <<"front_right_tyre_pressure", c_float>>,
    <<"ballast", c_uint8>>,
    <<"fuel_load", c_float>>
  >>

\* PacketCarSetupData with the header declared after the car setups
PacketCarSetupData_header_last ==
  <<
    <<"car_setups", Arr(Rec("CarSetupData"), 22)>>,
    <<"header", Rec("PacketHeader")>>
  >>

PacketCarSetupData ==
  <<
    <<"header", Rec("PacketHeader")>>,
    <<"car_setups", Arr(Rec("CarSetupData"), 22)>>
  >>

CarTelemetryData ==
  <<
    <<"speed", c_uint16>>,
    <<"throttle", c_float>>,
    <<"steer", c_float>>,
    <<"brake", c_float>>,
    <<"clutch", c_uint8>>,
    <<"gear", c_int8>>,
    <<"engine_rpm", c_uint16>>,
    <<"drs", c_uint8>>,
    <<"rev_lights_percent", c_uint8>>,
    <<"rev_lights_bit_value", c_uint16>>,
    <<"brakes_temperature", Arr(c_uint16, 4)>>,
    <<"tyres_surface_temperature", Arr(c_uint8, 4)>>,
    <<"tyres_inner_temperature", Arr(c_uint8, 4)>>,
    <<"engine_temperature", c_uint16>>,
    <<"tyres_pressure", Arr(c_float, 4)>>,
    <<"surface_type", Arr(c_uint8, 4)>>
  >>

PacketCarTelemetryData ==
  <<
    <<"header", Rec("PacketHeader")>>,
    <<"car_telemetry_data", Arr(Rec("CarTelemetryData"), 22)>>,
    <<"mfd_panel_index", c_uint8>>,
    <<"mfd_panel_index_secondary_player", c_uint8>>,
    <<"suggested_gear", c_int8>>
  >>

CarStatusData ==
  <<
    <<"traction_control", c_uint8>>,
    <<"anti_lock_brakes", c_uint8>>,
    <<"fuel_mix", c_uint8>>,
    <<"front_brake_bias", c_uint8>>,
    <<"pit_limiter_status", c_uint8>>,
    <<"fuel_in_tank", c_float>>,
    <<"fuel_capacity", c_float>>,
    <<"fuel_remaining_laps", c_float>>,
    <<"max_rpm", c_uint16>>,
    <<"idle_rpm", c_uint16>>,
    <<"max_gears", c_uint8>>,
    <<"drs_allowed", c_uint8>>,
    <<"drs_activation_distance", c_uint16>>,
    <<"actual_tyre_compound", c_uint8>>,
    <<"visual_tyre_compound", c_uint8>>,
    <<"tyres_age_laps", c_uint8>>,
    <<"vehicle_fia_flags", c_int8>>,
    <<"engine_power_ice", c_float>>,
    <<"engine_power_mguk", c_float>>,
    <<"ers_store_energy", c_float>>,
    <<"ers_deploy_mode", c_uint8>>,
    <<"ers_harvested_this_lap_mguk", c_float>>,
    <<"ers_harvested_this_lap_mguh", c_float>>,
    <<"ers_deployed_this_lap", c_float>>,
    <<"network_paused", c_uint8>>
  >>

PacketCarStatusData ==
  <<
    <<"header", Rec("PacketHeader")>>,
    <<"car_status_data", Arr(Rec("CarStatusData"), 22)>>
  >>

FinalClassificationData ==
  <<
    <<"position", c_uint8>>,
    <<"num_laps", c_uint8>>,
    <<"grid_position", c_uint8>>,
    <<"points", c_uint8>>,
    <<"num_pit_stops", c_uint8>>,
    <<"result_status", c_uint8>>,
    <<"best_lap_time_in_ms", c_uint32>>,
    <<"total_race_time", c_double>>,
    <<"penalties_time", c_uint8>>,
    <<"num_penalties", c_uint8>>,
    <<"num_tyre_stints", c_uint8>>,
    <<"tyre_stints_actual", Arr(c_uint8, 8)>>,
    <<"tyre_stints_visual", Arr(c_uint8, 8)>>,
    <<"tyre_stints_end_laps", Arr(c_uint8, 8)>>
  >>

PacketFinalClassificationData ==
  <<
    <<"header", Rec("PacketHeader")>>,
    <<"num_cars", c_uint8>>,
    <<"classification_data", Arr(Rec("FinalClassificationData"), 22)>>
  >>

LobbyInfoData ==
  <<
    <<"ai_controlled", c_uint8>>,
    <<"team_id", c_uint8>>,
    <<"nationality", c_uint8>>,
    <<"platform", c_uint8>>,
    <<"name", Arr(c_char, 48)>>,
    <<"car_number", c_uint8>>,
    <<"ready_status", c_uint8>>
  >>

PacketLobbyInfoData ==
  <<
    <<"header", Rec("PacketHeader")>>,
    <<"num_players", c_uint8>>,
    <<"lobby_players", Arr(Rec("LobbyInfoData"), 22)>>
  >>

CarDamageData ==
  <<
    <<"tyres_wear", Arr(c_float, 4)>>,
    <<"tyres_damage", Arr(c_uint8, 4)>>,
    <<"brakes_damage", Arr(c_uint8, 4)>>,
    <<"front_left_wing_damage", c_uint8>>,
    <<"front_right_wing_damage", c_uint8>>,
    <<"rear_wing_damage", c_uint8>>,
    <<"floor_damage", c_uint8>>,
    <<"diffuser_damage", c_uint8>>,
    <<"sidepod_damage", c_uint8>>,
    <<"drs_fault", c_uint8>>,
    <<"ers_fault", c_uint8>>,
    <<"gearbox_damage", c_uint8>>,
    <<"engined_damage", c_uint8>>,
    <<"engine_mguh_wear", c_uint8>>,
    <<"engine_energy_store_wear", c_uint8>>,
    <<"engine_control_electronics_wear", c_uint8>>,
    <<"engine_internal_combustion_engine_wear", c_uint8>>,
    <<"engine_mguk_wear", c_uint8>>,
    <<"engine_turbo_charger_wear", c_uint8>>,
    <<"engine_blown", c_uint8>>,
    <<"engine_seized", c_uint8>>
  >>

PacketCarDamageData ==
  <<
    <<"header", Rec("PacketHeader")>>,
    <<"car_damage_data", Arr(Rec("CarDamageData"), 22)>>
  >>

LapHistoryData ==
  <<
    <<"lap_time_in_ms", c_uint32>>,
    <<"sector1_time_in_ms", c_uint16>>,
    <<"sector1_time_minutes", c_uint8>>,
    <<"sector2_time_in_ms", c_uint16>>,
    <<"sector2_time_minutes", c_uint8>>,
    <<"sector3_time_in_ms", c_uint16>>,
    <<"sector1_time_minutes", c_uint8>>,
    <<"lap_valid_bit_flags", c_uint8>>
  >>

TyreStintHistoryData ==
  <<
    <<"end_lap", c_uint8>>,
    <<"tyre_actual_compound", c_uint8>>,
    <<"tyre_visual_compound", c_uint8>>
  >>

PacketSessionHistoryData ==
  <<
    <<"header", Rec("PacketHeader")>>,
    <<"car_idx", c_uint8>>,
    <<"num_laps", c_uint8>>,
    <<"num_tyre_stints", c_uint8>>,
    <<"best_lap_time_lap_num", c_uint8>>,
    <<"best_sector1_lap_num", c_uint8>>,
    <<"best_sector2_lap_num", c_uint8>>,
    <<"best_sector3_lap_num", c_uint8>>,
    <<"lap_history_data", Arr(Rec("LapHistoryData"), 100)>>,
    <<"tyre_stints_history_data", Arr(Rec("TyreStintHistoryData"), 8)>>
  >>

TyreSetData ==
  <<
    <<"actual_tyre_compound", c_uint8>>,
    <<"visual_tyre_compound", c_uint8>>,
    <<"wear", c_uint8>>,
    <<"available", c_uint8>>,
    <<"recommended_session", c_uint8>>,
    <<"life_span", c_uint8>>,
    <<"usable_life", c_uint8>>,
    <<"lap_delta_time", c_uint16>>,
    <<"fitted", c_uint8>>
  >>

PacketTyreSetsData ==
  <<
    <<"header", Rec("PacketHeader")>>,
    <<"car_idx", c_uint8>>,
    <<"tyre_set_data", Arr(Rec("TyreSetData"), 20)>>,
    <<"fitted_idx", c_uint8>>
  >>

PacketMotionExData ==
  <<
    <<"header", Rec("PacketHeader")>>,
    <<"m_suspensionPosition", Arr(c_float, 4)>>,
    <<"m_suspensionVelocity", Arr(c_float, 4)>>,
    <<"m_suspensionAcceleration", Arr(c_float, 4)>>,
    <<"m_wheelSpeed", Arr(c_float, 4)>>,
    <<"m_wheelSlipRatio", Arr(c_float, 4)>>,
    <<"m_wheelSlipAngle", Arr(c_float, 4)>>,
    <<"m_wheelLatForce", Arr(c_float, 4)>>,
    <<"m_wheelLongForce", Arr(c_float, 4)>>,
    <<"m_heightOfCOGAboveGround", c_float>>,
    <<"m_localVelocityX", c_float>>,
    <<"m_localVelocityY", c_float>>,
    <<"m_localVelocityZ", c_float>>,
    <<"m_angularVelocityX", c_float>>,
    <<"m_angularVelocityY", c_float>>,
    <<"m_angularVelocityZ", c_float>>,
    <<"m_angularAccelerationX", c_float>>,
    <<"m_angularAccelerationY", c_float>>,
    <<"m_angularAccelerationZ", c_float>>,
    <<"m_frontWheelsAngle", c_float>>,
    <<"m_wheelVertForce", c_float>>
  >>

(***************************************************************************)
(* The layout registry and the ctypes layout algorithm.                    *)
(***************************************************************************)
LayoutNames ==
  { "PacketHeader", "CarMotionData", "PacketMotionData", "MarshalZone",
    "WeatherForecastSample", "PacketSessionData", "LapData",
    "PacketLapData", "FastestLap", "Retirement", "TeamMateInPits",
    "RaceWinner", "Penalty", "SpeedTrap", "StartLights",
    "DriveThroughPenaltyServed", "StopGoPenaltyServed", "Flashback",
    "Buttons", "OverTake", "EventDataDetails", "PacketEventData",
    "ParticipantData", "PacketParticipantsData", "CarSetupData",
    "PacketCarSetupData", "CarTelemetryData", "PacketCarTelemetryData",
    "CarStatusData", "PacketCarStatusData", "FinalClassificationData",
    "PacketFinalClassificationData", "LobbyInfoData",
    "PacketLobbyInfoData", "CarDamageData", "PacketCarDamageData",
    "LapHistoryData", "TyreStintHistoryData", "PacketSessionHistoryData",
    "TyreSetData", "PacketTyreSetsData", "PacketMotionExData" }

Fields(nm) ==
  CASE nm = "PacketHeader" -> PacketHeader
    [] nm = "CarMotionData" -> CarMotionData
    [] nm = "PacketMotionData" -> PacketMotionData
    [] nm = "MarshalZone" -> MarshalZone
    [] nm = "WeatherForecastSample" -> WeatherForecastSample
    [] nm = "PacketSessionData" -> PacketSessionData
    [] nm = "LapData" -> LapData
    [] nm = "PacketLapData" -> PacketLapData
    [] nm = "FastestLap" -> FastestLap
    [] nm = "Retirement" -> Retirement
    [] nm = "TeamMateInPits" -> TeamMateInPits
    [] nm = "RaceWinner" -> RaceWinner
    [] nm = "Penalty" -> Penalty
    [] nm = "SpeedTrap" -> SpeedTrap
    [] nm = "StartLights" -> StartLights
    [] nm = "DriveThroughPenaltyServed" -> DriveThroughPenaltyServed
    [] nm = "StopGoPenaltyServed" -> StopGoPenaltyServed
    [] nm = "Flashback" -> Flashback
    [] nm = "Buttons" -> Buttons
    [] nm = "OverTake" -> OverTake
    [] nm = "EventDataDetails" -> EventDataDetails
    [] nm = "PacketEventData" -> PacketEventData
    [] nm = "ParticipantData" -> ParticipantData
    [] nm = "PacketParticipantsData" -> PacketParticipantsData
    [] nm = "CarSetupData" -> CarSetupData
    [] nm = "PacketCarSetupData" -> PacketCarSetupData
    [] nm = "CarTelemetryData" -> CarTelemetryData
    [] nm = "PacketCarTelemetryData" -> PacketCarTelemetryData
    [] nm = "CarStatusData" -> CarStatusData
    [] nm = "PacketCarStatusData" -> PacketCarStatusData
    [] nm = "FinalClassificationData" -> FinalClassificationData
    [] nm = "PacketFinalClassificationData" -> PacketFinalClassificationData
    [] nm = "LobbyInfoData" -> LobbyInfoData
    [] nm = "PacketLobbyInfoData" -> PacketLobbyInfoData
    [] nm = "CarDamageData" -> CarDamageData
    [] nm = "PacketCarDamageData" -> PacketCarDamageData
    [] nm = "LapHistoryData" -> LapHistoryData
    [] nm = "TyreStintHistoryData" -> TyreStintHistoryData
    [] nm = "PacketSessionHistoryData" -> PacketSessionHistoryData
    [] nm = "TyreSetData" -> TyreSetData
    [] nm = "PacketTyreSetsData" -> PacketTyreSetsData
    [] nm = "PacketMotionExData" -> PacketMotionExData

\* EventDataDetails declared as a structure: its members follow one another
IsUnion_struct(nm) ==
  FALSE

\* EventDataDetails derives from ctypes.Union, every other layout from Packet.
IsUnion(nm) ==
  nm = "EventDataDetails"

\* no _pack_: every field at its natural alignment
Packet_pack_natural ==
  1 - 1

\* Packet._pack_ : the pack granularity every Packet subclass inherits.
Packet_pack ==
  1

\* _pack_ in force for a layout (0 = none: the union does not derive from Packet).
PackOf(nm) ==
  IF IsUnion(nm) THEN 0 ELSE Packet_pack

NumFields(nm) ==
  Len(Fields(nm))

FieldName(nm, i) ==
  Fields(nm)[i][1]

FieldType(nm, i) ==
  Fields(nm)[i][2]

Min(a, b) ==
  IF a < b THEN a ELSE b

Max(a, b) ==
  IF a > b THEN a ELSE b

AlignUp(x, a) ==
  IF x % a = 0 THEN x ELSE x + (a - (x % a))

RECURSIVE StructSize(_), StructAlign(_), RangeEnd(_, _, _, _)

\* natural alignment of one element of a field type
ElemAlign(t) ==
  IF t.kind = "rec" THEN StructAlign(t.name) ELSE t.w

\* byte width of one element of a field type
ElemSize(t) ==
  IF t.kind = "rec" THEN StructSize(t.name) ELSE t.w

\* byte width of a field: scalar, array (arity x element) or nested record
TypeSize(t) ==
  IF t.n = 0 THEN ElemSize(t) ELSE t.n * ElemSize(t)

\* alignment a field gets inside layout nm: capped by _pack_ when set
EffAlign(nm, t) ==
  IF PackOf(nm) > 0 THEN Min(PackOf(nm), ElemAlign(t)) ELSE ElemAlign(t)

SetMax(S) ==
  CHOOSE x \in S : \A y \in S : y <= x

\* alignment of a layout: the largest alignment among its fields
StructAlign(nm) ==
  SetMax({EffAlign(nm, FieldType(nm, i)) : i \in 1..NumFields(nm)})

\* running offset after laying out fields lo..hi from offset start, each
\* field first aligned up and then advanced by its width (an offset is
\* never negative: the test on start only makes the left half be laid out
\* before the right half is entered)
RangeEnd(nm, lo, hi, start) ==
  IF start < 0 \/ lo > hi THEN start
  ELSE IF lo = hi
       THEN AlignUp(start, EffAlign(nm, FieldType(nm, lo))) + TypeSize(FieldType(nm, lo))
       ELSE RangeEnd(nm, ((lo + hi) \div 2) + 1, hi,
                     RangeEnd(nm, lo, (lo + hi) \div 2, start))

\* offset of the i-th field: 0 in a union, else the aligned running offset
FieldOffset(nm, i) ==
  IF IsUnion(nm) THEN 0
  ELSE AlignUp(RangeEnd(nm, 1, i - 1, 0), EffAlign(nm, FieldType(nm, i)))

\* ctypes.sizeof of a layout: the end of the last field (the largest member
\* in a union), padded to the layout's alignment
StructSize(nm) ==
  AlignUp(IF IsUnion(nm)
          THEN SetMax({TypeSize(FieldType(nm, i)) : i \in 1..NumFields(nm)})
          ELSE RangeEnd(nm, 1, NumFields(nm), 0),
          StructAlign(nm))

\* PacketMixin.size, tabulated once per layout
size ==
  [nm \in LayoutNames |-> StructSize(nm)]

\* field offsets, tabulated once per layout
offsetof ==
  [nm \in LayoutNames |-> [i \in 1..NumFields(nm) |-> FieldOffset(nm, i)]]

(***************************************************************************)
(* Reading fields out of a record's bytes.  raw is the record's private    *)
(* copy of the buffer, off the 0-based offset of the field.                *)
(***************************************************************************)
Pow2(k) ==
  CASE k = 0 -> 1 [] k = 1 -> 2 [] k = 2 -> 4 [] k = 3 -> 8 [] k = 4 -> 16
    [] k = 5 -> 32 [] k = 6 -> 64 [] k = 7 -> 128 [] k = 8 -> 256
    [] k = 9 -> 512 [] k = 10 -> 1024 [] k = 11 -> 2048 [] k = 12 -> 4096
    [] k = 13 -> 8192 [] k = 14 -> 16384 [] k = 15 -> 32768
    [] k = 16 -> 65536 [] k = 17 -> 131072 [] k = 18 -> 262144
    [] k = 19 -> 524288 [] k = 20 -> 1048576 [] k = 21 -> 2097152
    [] k = 22 -> 4194304 [] k = 23 -> 8388608 [] k = 24 -> 16777216
    [] k = 25 -> 33554432 [] k = 26 -> 67108864 [] k = 27 -> 134217728
    [] k = 28 -> 268435456 [] k = 29 -> 536870912 [] k = 30 -> 1073741824

\* the i-th byte (0-based) of the field at offset off
ByteAt(raw, off, i) ==
  raw[off + i + 1]

LittleEndian16_swapped(raw, off) ==
  256 * ByteAt(raw, off, 0) + ByteAt(raw, off, 1)

\* LittleEndianStructure: a 16-bit unit is low byte first
LittleEndian16(raw, off) ==
  ByteAt(raw, off, 0) + 256 * ByteAt(raw, off, 1)

\* two's complement reading of an unsigned w-byte value (w <= 2)
Signed(u, w) ==
  IF u >= Pow2(8 * w - 1) THEN u - Pow2(8 * w) ELSE u

\* value of an integer field: a number for 1 and 2 bytes, 16-bit limbs
\* (least significant first) for 4 and 8 bytes
IntValue(t, raw, off) ==
  IF t.w = 1
  THEN IF t.signed THEN Signed(ByteAt(raw, off, 0), 1) ELSE ByteAt(raw, off, 0)
  ELSE IF t.w = 2
  THEN IF t.signed THEN Signed(LittleEndian16(raw, off), 2)
       ELSE LittleEndian16(raw, off)
  ELSE [j \in 1..(t.w \div 2) |-> LittleEndian16(raw, off + 2 * (j - 1))]

\* value of a c_float / c_double field: the IEEE-754 fields of its bytes
FloatValue(t, raw, off) ==
  IF t.w = 4
  THEN << "f32",
          ByteAt(raw, off, 3) \div 128,
          (ByteAt(raw, off, 3) % 128) * 2 + (ByteAt(raw, off, 2) \div 128),
          (ByteAt(raw, off, 2) % 128) * 65536 + ByteAt(raw, off, 1) * 256
            + ByteAt(raw, off, 0) >>
  ELSE << "f64",
          ByteAt(raw, off, 7) \div 128,
          (ByteAt(raw, off, 7) % 128) * 16 + (ByteAt(raw, off, 6) \div 16),
          (ByteAt(raw, off, 6) % 16) * 4194304 + ByteAt(raw, off, 5) * 16384
            + ByteAt(raw, off, 4) * 64 + (ByteAt(raw, off, 3) \div 4),
          (ByteAt(raw, off, 3) % 4) * 16777216 + ByteAt(raw, off, 2) * 65536
            + ByteAt(raw, off, 1) * 256 + ByteAt(raw, off, 0) >>

\* a c_char array read whole, nulls included
CharLen_whole(raw, off, n) ==
  n

\* number of bytes of a c_char array before its first null byte
CharLen(raw, off, n) ==
  IF \E i \in 0..(n - 1) : ByteAt(raw, off, i) = 0
  THEN CHOOSE i \in 0..(n - 1) :
         /\ ByteAt(raw, off, i) = 0
         /\ \A j \in 0..(i - 1) : ByteAt(raw, off, j) # 0
  ELSE n

\* value of a c_char array field: the bytes before the first null byte
CharsValue(t, raw, off) ==
  SubSeq(raw, off + 1, off + CharLen(raw, off, t.n))

(***************************************************************************)
(* round(value, 3) on a decoded float.                                     *)
(***************************************************************************)
\* n = round-half-even(m * 2^(-k) * 1000) for 0 <= m < 2^24, k >= 4
Thousandths(m, k) ==
  IF k - 3 >= 32 THEN 0
  ELSE IF k - 3 = 31
       THEN (IF m * 125 > Pow2(30) THEN 1 ELSE 0)
       ELSE LET q == (m * 125) \div Pow2(k - 3)
                r == (m * 125) % Pow2(k - 3)
                h == Pow2(k - 4)
            IN  IF r > h \/ (r = h /\ q % 2 = 1) THEN q + 1 ELSE q

\* no rounding: the value as decoded
round3_none(x) ==
  x

\* round(x, 3): inf, nan and values that are multiples of 1/8 are returned
\* unchanged, any other value becomes a number of thousandths
round3(x) ==
  IF x[1] = "f32"
  THEN IF x[3] = 255 THEN x
       ELSE IF x[3] = 0 THEN << "dec3", x[2], Thousandths(x[4], 149) >>
       ELSE IF x[3] - 150 >= -3 THEN x
       ELSE << "dec3", x[2], Thousandths(Pow2(23) + x[4], 150 - x[3]) >>
  ELSE IF x[3] = 2047 THEN x
       ELSE IF x[3] <= 1011 THEN << "dec3", x[2], 0 >>
       ELSE IF x[3] - 1075 >= -3 THEN x
       ELSE CASE x[5] = 0 /\ x[4] % 64 = 0 ->
              IF x[3] - 1043 >= -3 THEN x
              ELSE << "dec3", x[2],
                      Thousandths(Pow2(20) + (x[4] \div 64), 1043 - x[3]) >>

(***************************************************************************)
(* bytes.decode(): strict UTF-8.                                           *)
(***************************************************************************)
IsCont(b) ==
  b >= 128 /\ b <= 191

\* length of the sequence a lead byte opens, 0 for a byte that opens none
LeadLen(b) ==
  IF b <= 127 THEN 1
  ELSE IF b >= 194 /\ b <= 223 THEN 2
  ELSE IF b >= 224 /\ b <= 239 THEN 3
  ELSE IF b >= 240 /\ b <= 244 THEN 4
  ELSE 0

\* range the second byte of a sequence must lie in
SecondOk(lead, b) ==
  CASE lead = 224 -> b >= 160 /\ b <= 191
    [] lead = 237 -> b >= 128 /\ b <= 159
    [] lead = 240 -> b >= 144 /\ b <= 191
    [] lead = 244 -> b >= 128 /\ b <= 143
    [] OTHER -> IsCont(b)

\* the well-formed sequence starting at position i of bs
GoodAt(bs, i) ==
  /\ LeadLen(bs[i]) >= 1
  /\ i + LeadLen(bs[i]) - 1 <= Len(bs)
  /\ \A j \in 1..(LeadLen(bs[i]) - 1) :
       IF j = 1 THEN SecondOk(bs[i], bs[i + 1]) ELSE IsCont(bs[i + j])

\* bs is valid UTF-8: every non-continuation byte opens a well-formed
\* sequence and every continuation byte belongs to one
Utf8Valid(bs) ==
  /\ \A i \in 1..Len(bs) : ~IsCont(bs[i]) => GoodAt(bs, i)
  /\ \A i \in 1..Len(bs) :
       IsCont(bs[i]) =>
         \E d \in 1..3 : /\ i - d >= 1
                         /\ ~IsCont(bs[i - d])
                         /\ LeadLen(bs[i - d]) > d
                         /\ \A e \in 1..(d - 1) : IsCont(bs[i - e])

\* code point of the well-formed sequence starting at position i
CodePoint(bs, i) ==
  CASE LeadLen(bs[i]) = 1 -> bs[i]
    [] LeadLen(bs[i]) = 2 -> (bs[i] % 32) * 64 + (bs[i + 1] % 64)
    [] LeadLen(bs[i]) = 3 ->
         (bs[i] % 16) * 4096 + (bs[i + 1] % 64) * 64 + (bs[i + 2] % 64)
    [] LeadLen(bs[i]) = 4 ->
         (bs[i] % 8) * 262144 + (bs[i + 1] % 64) * 4096
           + (bs[i + 2] % 64) * 64 + (bs[i + 3] % 64)

\* the k-th smallest element of a finite set of integers, as a sequence
SortedSeq(S) ==
  [k \in 1..Cardinality(S) |->
     CHOOSE x \in S : Cardinality({y \in S : y < x}) = k - 1]

\* bytes.decode() of valid UTF-8: the string as its sequence of code points
Utf8Decode(bs) ==
  LET starts == SortedSeq({i \in 1..Len(bs) : ~IsCont(bs[i])})
  IN  [k \in 1..Len(starts) |-> CodePoint(bs, starts[k])]

(***************************************************************************)
(* PacketMixin: decoding and canonicalisation.                             *)
(***************************************************************************)
\* byte width of one element, from the size table
ItemSize(t) ==
  IF t.kind = "rec" THEN size[t.name] ELSE t.w

\* Python class of the object that reading a field of type t returns
PyClass(t) ==
  IF t.kind = "char" THEN "bytes"
  ELSE IF t.n > 0 THEN "Array"
  ELSE IF t.kind = "rec" THEN t.name
  ELSE t.kind

\* isinstance(item, Packet): every layout but the union derives from Packet
IsPacket(nm) ==
  nm \in LayoutNames /\ ~IsUnion(nm)

\* getattr(self, k): the descriptor a name resolves to is the last field
\* declared under that name
get_attr(nm, k) ==
  SetMax({i \in 1..NumFields(nm) : FieldName(nm, i) = k})

\* keys of the dict comprehension over _fields_: each name once, at the
\* position of its first occurrence
dict_keys(nm) ==
  LET firsts == SortedSeq({i \in 1..NumFields(nm) :
                            \A j \in 1..(i - 1) : FieldName(nm, j) # FieldName(nm, i)})
  IN  [k \in 1..Len(firsts) |-> FieldName(nm, firsts[k])]

\* per layout: the dict keys and, for each, the field index getattr resolves
keysOf ==
  [nm \in LayoutNames |-> dict_keys(nm)]

attrOf ==
  [nm \in LayoutNames |-> [k \in 1..Len(keysOf[nm]) |-> get_attr(nm, keysOf[nm][k])]]

\* the value reading one array element or scalar yields, unformatted
item_value(t, raw, off) ==
  IF t.kind = "float" THEN FloatValue(t, raw, off) ELSE IntValue(t, raw, off)

RECURSIVE to_dict(_, _, _), format_type(_, _, _), format_array_type(_, _, _)

\* PacketMixin.to_dict of the record of layout nm stored at offset base:
\* a sequence of <<key, value>> pairs in insertion order
to_dict(nm, raw, base) ==
  [k \in 1..Len(keysOf[nm]) |->
     << keysOf[nm][k],
        format_type(FieldType(nm, attrOf[nm][k]), raw,
                    base + offsetof[nm][attrOf[nm][k]]) >>]

\* PacketMixin._format_type, on the value of a field of type t
format_type(t, raw, off) ==
  IF PyClass(t) = "float" THEN round3(FloatValue(t, raw, off))
  ELSE IF PyClass(t) = "bytes" THEN Utf8Decode(CharsValue(t, raw, off))
  ELSE IF PyClass(t) = "Array" THEN format_array_type(t, raw, off)
  ELSE IF t.kind = "rec" THEN to_dict(t.name, raw, off)
  ELSE IntValue(t, raw, off)

\* _format_array_type: Packet items become dicts, other items stay as read
format_array_type(t, raw, off) ==
  [j \in 1..t.n |->
     IF t.kind = "rec" /\ IsPacket(t.name)
     THEN to_dict(t.name, raw, off + (j - 1) * ItemSize(t))
     ELSE item_value(t, raw, off + (j - 1) * ItemSize(t))]

RECURSIVE to_dict_raises(_, _, _), format_raises(_, _, _)

\* to_dict raises UnicodeDecodeError when some bytes value it formats is
\* not valid UTF-8
to_dict_raises(nm, raw, base) ==
  \E k \in 1..Len(keysOf[nm]) :
    format_raises(FieldType(nm, attrOf[nm][k]), raw,
                  base + offsetof[nm][attrOf[nm][k]])

format_raises(t, raw, off) ==
  IF PyClass(t) = "float" THEN FALSE
  ELSE IF PyClass(t) = "bytes" THEN ~Utf8Valid(CharsValue(t, raw, off))
  ELSE IF PyClass(t) = "Array"
       THEN /\ t.kind = "rec"
            /\ IsPacket(t.name)
            /\ \E j \in 1..t.n :
                 to_dict_raises(t.name, raw, off + (j - 1) * ItemSize(t))
  ELSE IF t.kind = "rec" THEN to_dict_raises(t.name, raw, off)
  ELSE FALSE

NoRecord ==
  [layout |-> "", raw |-> << >>]

\* from_buffer_copy that fills a short buffer up with zero bytes
from_buffer_copy_padding(nm, buffer) ==
  [layout |-> nm,
   raw |-> [i \in 1..size[nm] |-> IF i <= Len(buffer) THEN buffer[i] ELSE 0]]

\* ctypes from_buffer_copy: a buffer shorter than the layout is refused
\* with ValueError; otherwise the record is a copy of the first size bytes
from_buffer_copy(nm, buffer) ==
  IF Len(buffer) < size[nm] THEN NoRecord
  ELSE [layout |-> nm, raw |-> SubSeq(buffer, 1, size[nm])]

\* PacketMixin.unpack
unpack(nm, buffer) ==
  from_buffer_copy(nm, buffer)

\* reading a scalar field of a record by name
field(r, k) ==
  item_value(FieldType(r.layout, get_attr(r.layout, k)), r.raw,
             offsetof[r.layout][get_attr(r.layout, k)])

\* per layout and field name: the field index getattr resolves the name to
attrIndex ==
  [nm \in LayoutNames |->
     [k \in {FieldName(nm, i) : i \in 1..NumFields(nm)} |-> get_attr(nm, k)]]

\* per layout and field name: the position of the name among the dict keys
keyIndex ==
  [nm \in LayoutNames |->
     [k \in {FieldName(nm, i) : i \in 1..NumFields(nm)} |->
        CHOOSE i \in 1..Len(keysOf[nm]) : keysOf[nm][i] = k]]

\* per key of the dict of the record: whether formatting its value raises
\* UnicodeDecodeError
raises_by_key(nm, raw) ==
  [k \in 1..Len(keysOf[nm]) |->
     format_raises(FieldType(nm, attrOf[nm][k]), raw, offsetof[nm][attrOf[nm][k]])]

\* PacketMixin.get_value: the formatted value of the attribute named k;
\* d is the dict to_dict builds, which stores that value under k
get_value(nm, d, k) ==
  d[keyIndex[nm][k]][2]

\* the value of the attribute named k, as read: scalars and c_char arrays
getattr_value(nm, raw, k) ==
  IF FieldType(nm, attrIndex[nm][k]).kind = "char"
  THEN CharsValue(FieldType(nm, attrIndex[nm][k]), raw, offsetof[nm][attrIndex[nm][k]])
  ELSE item_value(FieldType(nm, attrIndex[nm][k]), raw, offsetof[nm][attrIndex[nm][k]])

\* pack that drops the null bytes at the end of the record
pack_stripped(r) ==
  SubSeq(r.raw, 1,
         SetMax({0} \cup {i \in 1..size[r.layout] : r.raw[i] # 0}))

\* PacketMixin.pack: bytes(self), the sizeof(self) bytes of the record
pack(r) ==
  [i \in 1..size[r.layout] |-> r.raw[i]]

(***************************************************************************)
(* to_json: json.dumps of the dict, with the keyword arguments the module  *)
(* function fixes.  The text is modelled by the arguments that shape it    *)
(* and by the tree it spells, each dict in the order its keys are written. *)
(***************************************************************************)
\* every field name of the module, in the order of Python's str comparison
SortedNames ==
  <<
    "actual_tyre_compound", "ai_controlled", "ai_difficulty",
    "air_temperature", "air_temperature_change", "anti_lock_brakes",
    "available", "ballast", "being_overtaken_vehicle_idx",
    "best_lap_time_in_ms", "best_lap_time_lap_num", "best_sector1_lap_num",
    "best_sector2_lap_num", "best_sector3_lap_num", "brake", "brake_bias",
    "brake_pressure", "brakes_damage", "brakes_temperature",
    "braking_assist", "button_status", "buttons", "car_damage_data",
    "car_idx", "car_motion_data", "car_number", "car_position", "car_setups",
    "car_status_data", "car_telemetry_data", "classification_data", "clutch",
    "corner_cutting_warnings", "current_lap_invalid", "current_lap_num",
    "current_lap_time_in_ms", "delta_to_car_in_front_in_ms",
    "delta_to_race_leader_in_ms", "diffuser_damage",
    "drive_through_penalty_served", "driver_id", "driver_status", "drs",
    "drs_activation_distance", "drs_allowed", "drs_assist", "drs_fault",
    "dynamic_racing_line", "dynamic_racing_line_type", "end_lap",
    "engine_blown", "engine_control_electronics_wear",
    "engine_energy_store_wear", "engine_internal_combustion_engine_wear",
    "engine_mguh_wear", "engine_mguk_wear", "engine_power_ice",
    "engine_power_mguk", "engine_rpm", "engine_seized", "engine_temperature",
    "engine_turbo_charger_wear", "engined_damage", "ers_assist",
    "ers_deploy_mode", "ers_deployed_this_lap", "ers_fault",
    "ers_harvested_this_lap_mguh", "ers_harvested_this_lap_mguk",
    "ers_store_energy", "event_details", "event_string_code", "fastest_lap",
    "fastest_speed_in_session", "fastest_vehicle_idx_in_sSession", "fitted",
    "fitted_idx", "flashback", "flashback_frame_identifier",
    "flashback_session_time", "floor_damage", "forecast_accuracy", "formula",
    "frame_identifier", "front_anti_roll_bar", "front_brake_bias",
    "front_camber", "front_left_tyre_pressure", "front_left_wing_damage",
    "front_right_tyre_pressure", "front_right_wing_damage",
    "front_suspension", "front_suspension_height", "front_toe", "front_wing",
    "fuel_capacity", "fuel_in_tank", "fuel_load", "fuel_mix",
    "fuel_remaining_laps", "g_force_lateral", "g_force_longitudinal",
    "g_force_vertical", "game_major_version", "game_minor_version",
    "game_mode", "game_paused", "game_year", "gear", "gearbox_assist",
    "gearbox_damage", "grid_position", "header", "idle_rpm",
    "infringement_type", "is_driver_fastest_in_session", "is_spectating",
    "lap_data", "lap_delta_time", "lap_distance", "lap_history_data",
    "lap_num", "lap_time", "lap_time_in_ms", "lap_valid_bit_flags",
    "last_lap_time_in_ms", "life_span", "lobby_players",
    "m_angularAccelerationX", "m_angularAccelerationY",
    "m_angularAccelerationZ", "m_angularVelocityX", "m_angularVelocityY",
    "m_angularVelocityZ", "m_frontWheelsAngle", "m_heightOfCOGAboveGround",
    "m_localVelocityX", "m_localVelocityY", "m_localVelocityZ",
    "m_suspensionAcceleration", "m_suspensionPosition",
    "m_suspensionVelocity", "m_wheelLatForce", "m_wheelLongForce",
    "m_wheelSlipAngle", "m_wheelSlipRatio", "m_wheelSpeed",
    "m_wheelVertForce", "marshal_zones", "max_gears", "max_rpm",
    "mfd_panel_index", "mfd_panel_index_secondary_player", "my_team", "name",
    "nationality", "network_game", "network_id", "network_paused",
    "num_active_cars", "num_cars", "num_laps", "num_lights",
    "num_marshal_zones", "num_penalties", "num_pit_stops", "num_players",
    "num_red_flag_periods", "num_safety_car_periods", "num_tyre_stints",
    "num_unserved_drive_through_pens", "num_unserved_stop_go_pens",
    "num_virtual_safety_car_periods", "num_weather_forecast_samples",
    "off_throttle", "on_throttle", "other_vehicle_idx",
    "overall_fastest_in_session", "overall_frame_identifier", "overtake",
    "overtaking_vehicle_idx", "packet_format", "packet_id", "packet_version",
    "participants", "penalties", "penalties_time", "penalty", "penalty_type",
    "pit_assist", "pit_lane_time_in_lane_in_ms", "pit_lane_timer_active",
    "pit_limiter_status", "pit_release_assist", "pit_speed_limit",
    "pit_status", "pit_stop_rejoin_position", "pit_stop_should_serve_pen",
    "pit_stop_timer_in_ms", "pit_stop_window_ideal_lap",
    "pit_stop_window_latest_lap", "pitch", "places_gained", "platform",
    "player_car_index", "points", "position", "race_number", "race_winner",
    "rain_percentage", "ready_status", "rear_anti_roll_bar", "rear_camber",
    "rear_left_tyre_pressure", "rear_right_tyre_pressure", "rear_suspension",
    "rear_suspension_height", "rear_toe", "rear_wing", "rear_wing_damage",
    "recommended_session", "result_status", "retirement",
    "rev_lights_bit_value", "rev_lights_percent", "roll", "rule_set",
    "safety_car_delta", "safety_car_status", "season_link_identifier",
    "secondary_player_car_index", "sector", "sector1_time_in_ms",
    "sector1_time_minutes", "sector2_time_in_ms", "sector2_time_minutes",
    "sector3_time_in_ms", "sector_1_time_in_ms", "sector_1_time_minutes",
    "sector_2_time_in_ms", "sector_2_time_minutes", "session_duration",
    "session_length", "session_link_identifier", "session_time",
    "session_time_left", "session_type", "session_uid", "show_online_names",
    "sidepod_damage", "sli_pro_native_support", "spectator_car_index",
    "speed", "speed_trap", "speed_units_lead_player",
    "speed_units_secondary_player", "start_lights", "steer",
    "steering_assist", "stop_go_penalty_served", "suggested_gear",
    "surface_type", "team_id", "team_mate_in_pits",
    "temperature_units_lead_player", "temperature_units_secondary_player",
    "throttle", "time", "time_of_day", "time_offset",
    "time_trial_pb_car_idx", "time_trial_rival_car_idx", "total_distance",
    "total_laps", "total_race_time", "total_warnings", "track_id",
    "track_length", "track_temperature", "track_temperature_change",
    "traction_control", "tyre_actual_compound", "tyre_set_data",
    "tyre_stints_actual", "tyre_stints_end_laps", "tyre_stints_history_data",
    "tyre_stints_visual", "tyre_visual_compound", "tyres_age_laps",
    "tyres_damage", "tyres_inner_temperature", "tyres_pressure",
    "tyres_surface_temperature", "tyres_wear", "usable_life",
    "vehicle_fia_flags", "vehicle_idx", "visual_tyre_compound", "wear",
    "weather", "weather_forecast_samples", "weekend_link_identifier",
    "world_forward_dir_x", "world_forward_dir_y", "world_forward_dir_z",
    "world_position_x", "world_position_y", "world_position_z",
    "world_right_dir_x", "world_right_dir_y", "world_right_dir_z",
    "world_velocity_x", "world_velocity_y", "world_velocity_z", "yaw",
    "your_telemetry", "zone_flag", "zone_start"
  >>

\* position of a field name in that order
KeyRank ==
  [n \in {SortedNames[i] : i \in 1..Len(SortedNames)} |->
     CHOOSE i \in 1..Len(SortedNames) : SortedNames[i] = n]

\* the positions of the keys of a layout's dict, smallest key first
sorted_keys(nm) ==
  [k \in 1..Len(keysOf[nm]) |->
     CHOOSE i \in 1..Len(keysOf[nm]) :
       Cardinality({j \in 1..Len(keysOf[nm]) :
                     KeyRank[keysOf[nm][j]] < KeyRank[keysOf[nm][i]]}) = k - 1]

\* per layout: the order json.dumps writes the keys in, sorted or as inserted
writeOrder ==
  [nm \in LayoutNames |->
     [sort \in BOOLEAN |->
        IF sort THEN sorted_keys(nm) ELSE [k \in 1..Len(keysOf[nm]) |-> k]]]

RECURSIVE dumps(_, _, _), dumps_entry(_, _, _, _), dumps_item(_, _, _)

\* json.dumps of the dict d that to_dict built for a record of layout nm:
\* the keys of d in the order they are written
dumps(nm, d, sort) ==
  [k \in 1..Len(d) |-> dumps_entry(nm, d, writeOrder[nm][sort][k], sort)]

\* the i-th entry of d as it is written: its key and its value
dumps_entry(nm, d, i, sort) ==
  << d[i][1], dumps_item(FieldType(nm, attrOf[nm][i]), d[i][2], sort) >>

\* json.dumps of the value v of a field of type t: dicts nest, lists keep
\* their order, anything else is written as it is
dumps_item(t, v, sort) ==
  IF t.kind # "rec" THEN v
  ELSE IF t.n = 0 THEN dumps(t.name, v, sort)
  ELSE [j \in 1..t.n |-> dumps(t.name, v[j], sort)]

\* keyword arguments: a function from argument names to values
NoKwargs ==
  << >>

\* no sort_keys forced: the caller's value is kept
to_json_kwargs_setdefault(kwargs) ==
  [a \in {"indent", "sort_keys", "ensure_ascii"} |->
     IF a \in DOMAIN kwargs THEN kwargs[a]
     ELSE IF a = "indent" THEN 2
     ELSE IF a = "sort_keys" THEN TRUE
     ELSE FALSE]

\* the keyword arguments the module-level to_json hands to json.dumps:
\* indent defaults to 2, sort_keys and ensure_ascii are overwritten
to_json_kwargs(kwargs) ==
  [a \in {"indent", "sort_keys", "ensure_ascii"} |->
     IF a = "indent" THEN (IF a \in DOMAIN kwargs THEN kwargs[a] ELSE 2)
     ELSE IF a = "sort_keys" THEN TRUE
     ELSE FALSE]

\* to_json(d, **kwargs): the module-level function on the dict d of a
\* record of layout nm
to_json(nm, d, kwargs) ==
  [indent |-> to_json_kwargs(kwargs)["indent"],
   ensure_ascii |-> to_json_kwargs(kwargs)["ensure_ascii"],
   obj |-> dumps(nm, d, to_json_kwargs(kwargs)["sort_keys"])]

\* the keyword arguments the call hands to the module-level to_json:
\* PacketMixin.to_json is to_json(self.to_dict()) and passes none, and
\* Packet.__repr__ is self.to_json()
PacketMixin_to_json_kwargs(c, a) ==
  IF c = "to_json(kwargs)" THEN a ELSE NoKwargs

\* the calls that canonicalise a record: r.to_dict(), r.to_json(),
\* to_json(r.to_dict(), **kwargs), repr(r), r.get_value(k)
Methods ==
  {"to_dict", "to_json", "to_json(kwargs)", "repr", "get_value"}

\* the calls a record r accepts: every layout has the PacketMixin methods,
\* only a Packet has __repr__; without a record there is nothing to call
MethodsOf(r) ==
  IF r = NoRecord THEN {}
  ELSE IF IsPacket(r.layout) THEN Methods
  ELSE Methods \ {"repr"}

\* whether the call raises UnicodeDecodeError; rs tells it per dict key
call_raises(c, a, nm, rs) ==
  IF c = "get_value" THEN rs[keyIndex[nm][a]]
  ELSE \E k \in 1..Len(keysOf[nm]) : rs[k]

\* what the call returns; d is the dict self.to_dict() builds
call_value(c, a, nm, d) ==
  IF c = "to_dict" THEN d
  ELSE IF c = "get_value" THEN get_value(nm, d, a)
  ELSE to_json(nm, d, PacketMixin_to_json_kwargs(c, a))

\* how the call ends and what it returns
call_answer(c, a, nm, rs, d) ==
  IF call_raises(c, a, nm, rs)
  THEN [outcome |-> "UnicodeDecodeError", value |-> << >>]
  ELSE [outcome |-> IF c = "to_dict" THEN "dict"
                    ELSE IF c = "get_value" THEN "value" ELSE "json",
        value |-> call_value(c, a, nm, d)]

(***************************************************************************)
(* The dispatch table.                                                     *)
(***************************************************************************)
\* the table with the last key bound to the layout of the first
HEADER_FIELD_TO_PACKET_TYPE_dup ==
  [k \in { <<2023, 1, i>> : i \in 0..13 } |->
     << "PacketMotionData", "PacketSessionData", "PacketLapData",
        "PacketEventData", "PacketParticipantsData", "PacketCarSetupData",
        "PacketCarTelemetryData", "PacketCarStatusData",
        "PacketFinalClassificationData", "PacketLobbyInfoData",
        "PacketCarDamageData", "PacketSessionHistoryData",
        "PacketTyreSetsData", "PacketMotionData" >>[k[3] + 1]]

HEADER_FIELD_TO_PACKET_TYPE ==
  (<<2023, 1, 0>> :> "PacketMotionData")
  @@ (<<2023, 1, 1>> :> "PacketSessionData")
  @@ (<<2023, 1, 2>> :> "PacketLapData")
  @@ (<<2023, 1, 3>> :> "PacketEventData")
  @@ (<<2023, 1, 4>> :> "PacketParticipantsData")
  @@ (<<2023, 1, 5>> :> "PacketCarSetupData")
  @@ (<<2023, 1, 6>> :> "PacketCarTelemetryData")
  @@ (<<2023, 1, 7>> :> "PacketCarStatusData")
  @@ (<<2023, 1, 8>> :> "PacketFinalClassificationData")
  @@ (<<2023, 1, 9>> :> "PacketLobbyInfoData")
  @@ (<<2023, 1, 10>> :> "PacketCarDamageData")
  @@ (<<2023, 1, 11>> :> "PacketSessionHistoryData")
  @@ (<<2023, 1, 12>> :> "PacketTyreSetsData")
  @@ (<<2023, 1, 13>> :> "PacketMotionExData")

(***************************************************************************)
(* TelemetryListener.get and the calls a client makes on its result.       *)
(***************************************************************************)
VARIABLES
  packet,    \* the buffer handed to the last get / unpack call
  last,      \* the last call: "none", "get", "unpack", "to_dict", ...
  outcome,   \* how it ended: "none", "record", "dict", "json", "bytes",
             \* "value" or the error raised
  steps,     \* the steps the last get / unpack call went through, in order
  nread,     \* how many leading bytes of packet that call has read
  key,       \* the dispatch key the last get call built, << >> if none
  cls,       \* the layout whose unpack that call invoked, "" if none
  record,    \* the record the last get / unpack call returned, or NoRecord
  canon,     \* the dict the last to_dict call returned, << >> if none
  arg,       \* the argument of the last call on the record, << >> if none
  result,    \* what the last to_json / repr / pack / get_value / attribute
             \* read returned, << >> if none
  memo,      \* a result the client kept from an earlier call, and what
             \* has happened since
  table,     \* the module-level dict HEADER_FIELD_TO_PACKET_TYPE
  threads,   \* per thread calling get concurrently: where it is in get
             \* and its local variables
  heap       \* the records the concurrent get calls allocated, in order

vars == <<packet, last, outcome, steps, nread, key, cls, record, canon, arg,
          result, memo, table, threads, heap>>

\* nothing kept yet
NoMemo ==
  [of |-> [layout |-> "", raw |-> << >>], call |-> "none", value |-> << >>,
   since |-> "none"]

\* the kept result after a canonicalising call on the same record object
Canonicalised(m) ==
  IF m.since = "kept" THEN [m EXCEPT !.since = "canonicalised"] ELSE m

\* the kept result after get / unpack handed the client another record
Replaced(m) ==
  IF m.call = "none" THEN m ELSE [m EXCEPT !.since = "replaced"]

\* the threads that share the listener
Threads ==
  {1, 2}

\* a thread that has not called get
NoThread ==
  [pc |-> "idle", packet |-> << >>, key |-> << >>, cls |-> "", ref |-> 0,
   outcome |-> "none", canon |-> << >>]

\* socket.recv(2048): a datagram is cut to the receive size
RecvSize ==
  2048

recv(datagram) ==
  IF Len(datagram) > RecvSize THEN SubSeq(datagram, 1, RecvSize) ELSE datagram

\* a lookup that falls back to the first layout for an unlisted key
lookup_with_default(k) ==
  IF k \in DOMAIN table THEN table[k] ELSE "PacketMotionData"

\* a lookup that keeps failing once a key was missing
lookup_sticky(k) ==
  IF outcome = "KeyError" \/ k \notin DOMAIN table THEN "" ELSE table[k]

\* HEADER_FIELD_TO_PACKET_TYPE[key]: the layout, or "" for KeyError
lookup(k) ==
  IF k \in DOMAIN table THEN table[k] ELSE ""

\* the key get builds from a decoded header
header_key(header) ==
  << field(header, "packet_format"), field(header, "packet_version"),
     field(header, "packet_id") >>

\* a get that checks the length of the datagram against the event layout
\* before it looks the key up
Get_length_first(datagram) ==
  LET p == recv(datagram)
      header == from_buffer_copy("PacketHeader", p)
  IN  /\ packet' = p
      /\ last' = "get"
      /\ UNCHANGED <<table, threads, heap>>
      /\ canon' = << >>
      /\ arg' = << >>
      /\ result' = << >>
      /\ memo' = Replaced(memo)
      /\ IF header = NoRecord \/ Len(p) < size["PacketEventData"]
         THEN /\ outcome' = "ValueError"
              /\ steps' = << "header" >>
              /\ nread' = 0
              /\ key' = << >>
              /\ cls' = ""
              /\ record' = NoRecord
         ELSE /\ key' = header_key(header)
              /\ IF lookup(header_key(header)) = ""
                 THEN /\ outcome' = "KeyError"
                      /\ steps' = << "header", "lookup" >>
                      /\ nread' = size["PacketHeader"]
                      /\ cls' = ""
                      /\ record' = NoRecord
                 ELSE /\ steps' = << "header", "lookup", "unpack" >>
                      /\ cls' = lookup(header_key(header))
                      /\ record' = unpack(lookup(header_key(header)), p)
                      /\ IF unpack(lookup(header_key(header)), p) = NoRecord
                         THEN /\ outcome' = "ValueError"
                              /\ nread' = size["PacketHeader"]
                         ELSE /\ outcome' = "record"
                              /\ nread' = size[lookup(header_key(header))]

\* TelemetryListener.get on the next datagram of the socket
Get(datagram) ==
  LET p == recv(datagram)
      header == from_buffer_copy("PacketHeader", p)
  IN  /\ packet' = p
      /\ last' = "get"
      /\ UNCHANGED <<table, threads, heap>>
      /\ canon' = << >>
      /\ arg' = << >>
      /\ result' = << >>
      /\ memo' = Replaced(memo)
      /\ IF header = NoRecord
         THEN /\ outcome' = "ValueError"
              /\ steps' = << "header" >>
              /\ nread' = 0
              /\ key' = << >>
              /\ cls' = ""
              /\ record' = NoRecord
         ELSE /\ key' = header_key(header)
              /\ IF lookup(header_key(header)) = ""
                 THEN /\ outcome' = "KeyError"
                      /\ steps' = << "header", "lookup" >>
                      /\ nread' = size["PacketHeader"]
                      /\ cls' = ""
                      /\ record' = NoRecord
                 ELSE /\ steps' = << "header", "lookup", "unpack" >>
                      /\ cls' = lookup(header_key(header))
                      /\ record' = unpack(lookup(header_key(header)), p)
                      /\ IF unpack(lookup(header_key(header)), p) = NoRecord
                         THEN /\ outcome' = "ValueError"
                              /\ nread' = size["PacketHeader"]
                         ELSE /\ outcome' = "record"
                              /\ nread' = size[lookup(header_key(header))]

\* a direct call of  L.unpack(buffer)  on a layout class
Unpack(nm, buffer) ==
  /\ packet' = buffer
  /\ last' = "unpack"
  /\ UNCHANGED <<table, threads, heap>>
  /\ canon' = << >>
  /\ arg' = << >>
  /\ result' = << >>
  /\ memo' = Replaced(memo)
  /\ key' = << >>
  /\ steps' = << "unpack" >>
  /\ cls' = nm
  /\ record' = unpack(nm, buffer)
  /\ IF unpack(nm, buffer) = NoRecord
     THEN outcome' = "ValueError" /\ nread' = 0
     ELSE outcome' = "record" /\ nread' = size[nm]

\* to_dict that swallows the decoding error and returns an empty dict
ToDict_swallow ==
  /\ record # NoRecord
  /\ last' = "to_dict"
  /\ UNCHANGED <<table, threads, heap>>
  /\ outcome' = "dict"
  /\ canon' = IF to_dict_raises(record.layout, record.raw, 0) THEN << >>
              ELSE to_dict(record.layout, record.raw, 0)
  /\ arg' = << >>
  /\ result' = << >>
  /\ memo' = Canonicalised(memo)
  /\ UNCHANGED <<packet, steps, nread, key, cls, record>>

\* record.to_dict() on the record the last call returned
ToDict ==
  /\ record # NoRecord
  /\ last' = "to_dict"
  /\ UNCHANGED <<table, threads, heap>>
  /\ IF to_dict_raises(record.layout, record.raw, 0)
     THEN outcome' = "UnicodeDecodeError" /\ canon' = << >>
     ELSE outcome' = "dict" /\ canon' = to_dict(record.layout, record.raw, 0)
  /\ arg' = << >>
  /\ result' = << >>
  /\ memo' = Canonicalised(memo)
  /\ UNCHANGED <<packet, steps, nread, key, cls, record>>

\* a canonicalising call that writes the rounded values back: the record
\* is cleared
Canonicalise_in_place(c, a) ==
  /\ record # NoRecord
  /\ c = "repr" => IsPacket(record.layout)
  /\ last' = c
  /\ UNCHANGED <<table, threads, heap>>
  /\ arg' = a
  /\ \E ans \in { call_answer(c, a, record.layout,
                               raises_by_key(record.layout, record.raw),
                               to_dict(record.layout, record.raw, 0)) } :
       /\ outcome' = ans.outcome
       /\ canon' = IF c = "to_dict" THEN ans.value ELSE << >>
       /\ result' = IF c = "to_dict" THEN << >> ELSE ans.value
  /\ memo' = Canonicalised(memo)
  /\ record' = [record EXCEPT !.raw = [i \in 1..Len(record.raw) |-> 0]]
  /\ UNCHANGED <<packet, steps, nread, key, cls>>

\* a canonicalising call whose entries pile up in a list shared between
\* calls: what the client kept comes first
Canonicalise_shared_list(c, a) ==
  /\ record # NoRecord
  /\ c = "repr" => IsPacket(record.layout)
  /\ last' = c
  /\ UNCHANGED <<table, threads, heap>>
  /\ arg' = a
  /\ \E ans \in { call_answer(c, a, record.layout,
                               raises_by_key(record.layout, record.raw),
                               to_dict(record.layout, record.raw, 0)) } :
       /\ outcome' = ans.outcome
       /\ canon' = IF c = "to_dict"
                   THEN (IF ans.outcome = "dict" /\ memo.call = "to_dict"
                         THEN memo.value ELSE << >>) \o ans.value
                   ELSE << >>
       /\ result' = IF c = "to_dict" THEN << >> ELSE ans.value
  /\ memo' = Canonicalised(memo)
  /\ UNCHANGED <<packet, steps, nread, key, cls, record>>

\* the client calls method c with argument a on the record it holds:
\* r.to_dict(), r.to_json(), to_json(r.to_dict(), **a), repr(r) or
\* r.get_value(a)
Canonicalise(c, a) ==
  /\ record # NoRecord
  /\ c = "repr" => IsPacket(record.layout)
  /\ last' = c
  /\ UNCHANGED <<table, threads, heap>>
  /\ arg' = a
  /\ \E ans \in { call_answer(c, a, record.layout,
                               raises_by_key(record.layout, record.raw),
                               to_dict(record.layout, record.raw, 0)) } :
       /\ outcome' = ans.outcome
       /\ canon' = IF c = "to_dict" THEN ans.value ELSE << >>
       /\ result' = IF c = "to_dict" THEN << >> ELSE ans.value
  /\ memo' = Canonicalised(memo)
  /\ UNCHANGED <<packet, steps, nread, key, cls, record>>

\* the attribute read  record.k  of a scalar or c_char field
GetAttr(k) ==
  /\ record # NoRecord
  /\ FieldType(record.layout, attrIndex[record.layout][k]).kind # "rec"
  /\ \/ FieldType(record.layout, attrIndex[record.layout][k]).n = 0
     \/ FieldType(record.layout, attrIndex[record.layout][k]).kind = "char"
  /\ last' = "getattr"
  /\ UNCHANGED <<table, threads, heap>>
  /\ arg' = k
  /\ canon' = << >>
  /\ outcome' = "value"
  /\ result' = getattr_value(record.layout, record.raw, k)
  /\ UNCHANGED <<packet, steps, nread, key, cls, record, memo>>

\* record.pack()
Pack ==
  /\ record # NoRecord
  /\ last' = "pack"
  /\ UNCHANGED <<table, threads, heap>>
  /\ arg' = << >>
  /\ canon' = << >>
  /\ outcome' = "bytes"
  /\ result' = pack(record)
  /\ UNCHANGED <<packet, steps, nread, key, cls, record, memo>>

\* the client keeps what the to_dict, to_json or pack call just returned,
\* or how the get call just ended
Remember ==
  /\ IF last = "get" THEN TRUE
     ELSE /\ last \in {"to_dict", "to_json", "pack"}
          /\ outcome \in {"dict", "json", "bytes"}
  /\ memo' = [of |-> record, call |-> last,
              value |-> IF last = "to_dict" THEN canon
                        ELSE IF last = "get" THEN outcome ELSE result,
              since |-> "kept"]
  /\ UNCHANGED <<packet, last, outcome, steps, nread, key, cls, record, canon,
                 arg, result, table, threads, heap>>

\* how many records the concurrent calls may allocate before no further
\* call is started
MaxHeap ==
  2

\* get, line by line, as run by thread t; the lines of different threads
\* interleave.  Line 24: packet = self.socket.recv(2048)
get_recv(t, datagram) ==
  /\ threads[t].pc \in {"idle", "done", "dict"}
  /\ Len(heap) < MaxHeap
  /\ threads' = [threads EXCEPT ![t] =
                   [NoThread EXCEPT !.pc = "recv", !.packet = recv(datagram)]]
  /\ UNCHANGED <<packet, last, outcome, steps, nread, key, cls, record, canon,
                 arg, result, memo, table, heap>>

\* lines 25 and 27: header = PacketHeader.from_buffer_copy(packet) and
\* key = (header.packet_format, header.packet_version, header.packet_id)
get_header(t) ==
  /\ threads[t].pc = "recv"
  /\ \E header \in { from_buffer_copy("PacketHeader", threads[t].packet) } :
       threads' = [threads EXCEPT ![t] =
                     IF header = NoRecord
                     THEN [@ EXCEPT !.pc = "done", !.outcome = "ValueError"]
                     ELSE [@ EXCEPT !.pc = "key", !.key = header_key(header)]]
  /\ UNCHANGED <<packet, last, outcome, steps, nread, key, cls, record, canon,
                 arg, result, memo, table, heap>>

\* line 29, first half: HEADER_FIELD_TO_PACKET_TYPE[key]
get_lookup(t) ==
  /\ threads[t].pc = "key"
  /\ \E c \in { lookup(threads[t].key) } :
       threads' = [threads EXCEPT ![t] =
                     IF c = ""
                     THEN [@ EXCEPT !.pc = "done", !.outcome = "KeyError"]
                     ELSE [@ EXCEPT !.pc = "cls", !.cls = c]]
  /\ UNCHANGED <<packet, last, outcome, steps, nread, key, cls, record, canon,
                 arg, result, memo, table, heap>>

\* an unpack that keeps one instance per layout class and fills it again
get_unpack_cached(t) ==
  /\ threads[t].pc = "cls"
  /\ \E r \in { unpack(threads[t].cls, threads[t].packet) } :
       IF r = NoRecord
       THEN /\ threads' = [threads EXCEPT ![t] =
                             [@ EXCEPT !.pc = "done", !.outcome = "ValueError"]]
            /\ heap' = heap
       ELSE IF \E i \in 1..Len(heap) : heap[i].layout = r.layout
       THEN \E i \in { CHOOSE j \in 1..Len(heap) : heap[j].layout = r.layout } :
              /\ heap' = [heap EXCEPT ![i] = r]
              /\ threads' = [threads EXCEPT ![t] =
                               [@ EXCEPT !.pc = "done", !.outcome = "record",
                                         !.ref = i]]
       ELSE /\ heap' = Append(heap, r)
            /\ threads' = [threads EXCEPT ![t] =
                             [@ EXCEPT !.pc = "done", !.outcome = "record",
                                       !.ref = Len(heap) + 1]]
  /\ UNCHANGED <<packet, last, outcome, steps, nread, key, cls, record, canon,
                 arg, result, memo, table>>

\* line 29, second half: cls.unpack(packet), which allocates the record
\* (from_buffer_copy) and returns it
get_unpack(t) ==
  /\ threads[t].pc = "cls"
  /\ \E r \in { unpack(threads[t].cls, threads[t].packet) } :
       IF r = NoRecord
       THEN /\ threads' = [threads EXCEPT ![t] =
                             [@ EXCEPT !.pc = "done", !.outcome = "ValueError"]]
            /\ heap' = heap
       ELSE /\ heap' = Append(heap, r)
            /\ threads' = [threads EXCEPT ![t] =
                             [@ EXCEPT !.pc = "done", !.outcome = "record",
                                       !.ref = Len(heap) + 1]]
  /\ UNCHANGED <<packet, last, outcome, steps, nread, key, cls, record, canon,
                 arg, result, memo, table>>

\* thread t calls to_dict() on the record its get call returned
thread_to_dict(t) ==
  /\ threads[t].pc = "done"
  /\ threads[t].ref > 0
  /\ threads' = [threads EXCEPT ![t] =
                   IF to_dict_raises(heap[threads[t].ref].layout,
                                     heap[threads[t].ref].raw, 0)
                   THEN [@ EXCEPT !.pc = "dict",
                                  !.outcome = "UnicodeDecodeError"]
                   ELSE [@ EXCEPT !.pc = "dict", !.outcome = "dict",
                                  !.canon = to_dict(heap[threads[t].ref].layout,
                                                    heap[threads[t].ref].raw, 0)]]
  /\ UNCHANGED <<packet, last, outcome, steps, nread, key, cls, record, canon,
                 arg, result, memo, table, heap>>

\* the kept result after the client wrote to the buffer it had decoded from
Written(m) ==
  IF m.since \in {"kept", "canonicalised", "written"}
  THEN [m EXCEPT !.since = "written"] ELSE m

\* the write through a record made with from_buffer, which shares the
\* memory of its source buffer
Overwrite_from_buffer(i, b) ==
  /\ Len(steps) > 0 /\ steps[1] = "unpack"
  /\ i \in 1..Len(packet)
  /\ packet[i] # b
  /\ packet' = [packet EXCEPT ![i] = b]
  /\ record' = IF record = NoRecord \/ i > size[record.layout] THEN record
               ELSE [record EXCEPT !.raw[i] = b]
  /\ last' = "write"
  /\ outcome' = "none"
  /\ canon' = << >>
  /\ arg' = << >>
  /\ result' = << >>
  /\ memo' = Written(memo)
  /\ UNCHANGED <<steps, nread, key, cls, table, threads, heap>>

\* the client, having called  L.unpack(buffer)  on a bytearray, writes
\* byte b at position i of that buffer.  unpack made the record with
\* from_buffer_copy: the record has its own memory, the write does not
\* reach it
Overwrite(i, b) ==
  /\ Len(steps) > 0 /\ steps[1] = "unpack"
  /\ i \in 1..Len(packet)
  /\ packet[i] # b
  /\ packet' = [packet EXCEPT ![i] = b]
  /\ last' = "write"
  /\ outcome' = "none"
  /\ canon' = << >>
  /\ arg' = << >>
  /\ result' = << >>
  /\ memo' = Written(memo)
  /\ UNCHANGED <<steps, nread, key, cls, record, table, threads, heap>>

(***************************************************************************)
(* The event codes of the PacketEventData table, as their 4 ASCII bytes,   *)
(* and the union member each one is documented to carry ("" = no payload). *)
(***************************************************************************)
EventMember ==
  (<<83, 83, 84, 65>> :> "")
  @@ (<<83, 69, 78, 68>> :> "")
  @@ (<<70, 84, 76, 80>> :> "fastest_lap")
  @@ (<<82, 84, 77, 84>> :> "retirement")
  @@ (<<68, 82, 83, 69>> :> "")
  @@ (<<68, 82, 83, 68>> :> "")
  @@ (<<84, 77, 80, 84>> :> "team_mate_in_pits")
  @@ (<<67, 72, 81, 70>> :> "")
  @@ (<<82, 67, 87, 78>> :> "race_winner")
  @@ (<<80, 69, 78, 65>> :> "penalty")
  @@ (<<83, 80, 84, 80>> :> "speed_trap")
  @@ (<<83, 84, 76, 71>> :> "start_lights")
  @@ (<<76, 71, 79, 84>> :> "")
  @@ (<<68, 84, 83, 86>> :> "drive_through_penalty_served")
  @@ (<<83, 71, 83, 86>> :> "stop_go_penalty_served")
  @@ (<<70, 76, 66, 75>> :> "flashback")
  @@ (<<66, 85, 84, 78>> :> "buttons")
  @@ (<<82, 68, 70, 76>> :> "")
  @@ (<<79, 86, 84, 75>> :> "overtake")
  \* SSTA SEND FTLP RTMT DRSE DRSD TMPT CHQF RCWN PENA
  \* SPTP STLG LGOT DTSV SGSV FLBK BUTN RDFL OVTK

KnownCodes ==
  DOMAIN EventMember

\* the codes documented as plain markers
PayloadFreeCodes ==
  {<<83, 83, 84, 65>>, <<83, 69, 78, 68>>, <<68, 82, 83, 69>>, <<68, 82, 83, 68>>, <<76, 71, 79, 84>>, <<82, 68, 70, 76>>}

FTLP ==
  <<70, 84, 76, 80>>

\* codes that are in no table: "XXXX", "ftlp" and four null bytes
UnknownCodes ==
  {<<88, 88, 88, 88>>, <<102, 116, 108, 112>>, <<0, 0, 0, 0>>}

(***************************************************************************)
(* The datagrams the model feeds to the decoder.                           *)
(***************************************************************************)
\* a header with the given key bytes; the other fields hold fixed values
\* (session_time = 123.456789f, secondary_player_car_index = 255)
HeaderBytes(fmtLo, fmtHi, ver, id) ==
  << fmtLo, fmtHi, 23, 1, 14, ver, id,
     1, 2, 3, 4, 5, 6, 7, 200,
     224, 233, 246, 66,
     16, 39, 0, 0,
     17, 39, 0, 128,
     19, 255 >>

Fill(len, b) ==
  [i \in 1..len |-> b]

\* fill bytes of the bodies: 1, 255 (negative as signed, not UTF-8, NaN)
Fills ==
  {1, 255}

\* how many bytes longer than its layout a buffer may be
MaxExtra ==
  1

\* buffer lengths relative to the layout's size
LenDeltas ==
  (-1)..MaxExtra

\* 12-byte union regions; in the second, bytes 1..4 are 123.456789f and
\* every byte differs from the first one's
Payloads ==
  { <<0, 0, 0, 0, 0, 0, 0, 0, 0, 0, 0, 0>>,
    <<7, 224, 233, 246, 66, 9, 3, 1, 16, 0, 32, 65>>,
    <<7, 224, 233, 246, 66, 0, 0, 0, 0, 0, 0, 0>>,
    <<19, 0, 0, 200, 66, 1, 1, 19, 0, 0, 200, 66>> }

\* well-keyed datagrams of every registered kind, one byte short, exact
\* and one byte long
KeyedDatagrams ==
  { HeaderBytes(231, 7, 1, id)
      \o Fill(size[HEADER_FIELD_TO_PACKET_TYPE[<<2023, 1, id>>]]
                - size["PacketHeader"] + d, f) :
    id \in 0..13, d \in LenDeltas, f \in Fills }

\* datagrams whose key is not registered: wrong format (2022, and 2023
\* with the sign bit set), wrong version, wrong packet id
UnkeyedDatagrams ==
  { HeaderBytes(k[1], k[2], k[3], k[4]) \o Fill(len, 1) :
    k \in { <<230, 7, 1, 0>>, <<231, 135, 1, 3>>, <<231, 7, 2, 3>>,
            <<231, 7, 0, 0>>, <<231, 7, 1, 14>>, <<231, 7, 1, 255>> },
    len \in {0, 16, 1320} }

\* datagrams too short to hold a header
ShortDatagrams ==
  { SubSeq(HeaderBytes(231, 7, 1, id), 1, len) :
    id \in {0, 3}, len \in {0, 1, 23, 24, 28} }

\* an over-long datagram, cut by recv
LongDatagrams ==
  { HeaderBytes(231, 7, 1, 3) \o Fill(RecvSize, 1) }

EventDatagrams ==
  { HeaderBytes(231, 7, 1, 3) \o c \o p :
    c \in KnownCodes \cup UnknownCodes, p \in Payloads }

\* a motion-ex datagram of the length its docstring states: 217 bytes,
\* whose last 16 bytes, where m_wheelVertForce[4] is documented to lie,
\* are four different 32-bit values (the first is 123.456789f)
DocumentedDatagrams ==
  { HeaderBytes(231, 7, 1, 13) \o Fill(172, 1)
      \o << 224, 233, 246, 66, 225, 233, 246, 66,
            226, 233, 246, 66, 227, 233, 246, 66 >> }

\* driver names as the bytes of a 48-byte name field: "Max", "Max" with
\* bytes after its null, "P\u00e9rez" in UTF-8, and 48 letters without a null
Names ==
  { <<77, 97, 120>>,
    <<77, 97, 120, 0, 88, 121, 122>>,
    <<80, 195, 169, 114, 101, 122>>,
    [i \in 1..48 |-> 64 + ((i - 1) % 26) + 1] }

\* a buffer of layout nm (with a name field) whose name field holds the
\* given bytes followed by nulls; every other byte is 1
NameBuffer(nm, name) ==
  [i \in 1..size[nm] |->
     IF i > offsetof[nm][get_attr(nm, "name")]
        /\ i <= offsetof[nm][get_attr(nm, "name")] + 48
     THEN (IF i - offsetof[nm][get_attr(nm, "name")] <= Len(name)
           THEN name[i - offsetof[nm][get_attr(nm, "name")]] ELSE 0)
     ELSE 1]

\* a participants datagram whose 22 drivers all carry the same name
NamedDatagrams ==
  { HeaderBytes(231, 7, 1, 4) \o <<22>>
      \o [i \in 1..(22 * size["ParticipantData"]) |->
            NameBuffer("ParticipantData", name)
              [((i - 1) % size["ParticipantData"]) + 1]] :
    name \in Names }

Datagrams ==
  KeyedDatagrams \cup UnkeyedDatagrams \cup ShortDatagrams
    \cup LongDatagrams \cup EventDatagrams \cup DocumentedDatagrams
    \cup NamedDatagrams

\* a buffer whose neighbouring bytes differ; every byte has its top bit set
Ramp(len) ==
  [i \in 1..len |-> 129 + (i % 61)]

\* buffers for direct unpack calls on a layout
UnpackBuffers(nm) ==
  { Fill(size[nm] + d, f) : d \in LenDeltas, f \in Fills }
    \cup { << >>, Ramp(size[nm]) }
    \cup (IF nm \in {"ParticipantData", "LobbyInfoData"}
          THEN { NameBuffer(nm, name) : name \in Names } ELSE {})

\* the buffers of the client-call specification, each with the layout it
\* is unpacked as: events with and without payload, and buffers of layouts
\* with floats, a double, arrays, text, a repeated field name and the union
CallBuffers ==
  { <<"PacketEventData", HeaderBytes(231, 7, 1, 3) \o FTLP
        \o <<7, 224, 233, 246, 66, 9, 3, 1, 16, 0, 32, 65>>>>,
    <<"PacketEventData",
      HeaderBytes(231, 7, 1, 3) \o <<83, 83, 84, 65>> \o Fill(12, 0)>>,
    <<"ParticipantData", NameBuffer("ParticipantData", <<77, 97, 120>>)>>,
    <<"ParticipantData", Fill(size["ParticipantData"], 255)>>,
    <<"LapHistoryData", Ramp(size["LapHistoryData"] + 1)>>,
    <<"CarMotionData", Ramp(size["CarMotionData"])>>,
    <<"FinalClassificationData", Ramp(size["FinalClassificationData"])>>,
    <<"EventDataDetails", <<7, 224, 233, 246, 66, 9, 3, 1, 16, 0, 32, 65>>>>,
    <<"PacketHeader", HeaderBytes(231, 7, 1, 3) \o <<70>>>>,
    <<"TyreSetData", Fill(size["TyreSetData"] - 1, 1)>> }

\* keyword arguments a client may pass to the module-level to_json
Kwargs ==
  { NoKwargs, [indent |-> 4], [sort_keys |-> FALSE],
    [sort_keys |-> FALSE, indent |-> 0] }

\* the field names of the record the client holds
FieldNames ==
  IF record = NoRecord THEN {}
  ELSE {FieldName(record.layout, i) : i \in 1..NumFields(record.layout)}

\* the arguments the client may pass to a canonicalising call
MethodArgs(c) ==
  IF c = "to_json(kwargs)" THEN Kwargs
  ELSE IF c = "get_value" THEN FieldNames
  ELSE { << >> }

Init ==
  /\ packet = << >>
  /\ last = "none"
  /\ outcome = "none"
  /\ steps = << >>
  /\ nread = 0
  /\ key = << >>
  /\ cls = ""
  /\ record = NoRecord
  /\ canon = << >>
  /\ arg = << >>
  /\ result = << >>
  /\ memo = NoMemo
  /\ table = HEADER_FIELD_TO_PACKET_TYPE
  /\ threads = [t \in Threads |-> NoThread]
  /\ heap = << >>

Next ==
  \/ \E d \in Datagrams : Get(d)
  \/ \E nm \in LayoutNames : \E b \in UnpackBuffers(nm) : Unpack(nm, b)
  \/ ToDict

Spec ==
  Init /\ [][Next]_vars

\* the calls a client makes on decoded records, over fewer inputs
NextCalls ==
  \/ \E b \in CallBuffers : Unpack(b[1], b[2])
  \/ \E c \in MethodsOf(record) : \E a \in MethodArgs(c) : Canonicalise(c, a)
  \/ \E k \in FieldNames : GetAttr(k)
  \/ Pack
  \/ Remember

SpecCalls ==
  Init /\ [][NextCalls]_vars

\* the datagrams that arrive one after another on the listener's socket:
\* well-formed events, a well-formed motion datagram, and datagrams that
\* are too short for a header, too short for their layout, of an unlisted
\* format or packet id, over-long, or hold text that is not UTF-8
StreamDatagrams ==
  { HeaderBytes(231, 7, 1, 3) \o FTLP
      \o <<7, 224, 233, 246, 66, 9, 3, 1, 16, 0, 32, 65>>,
    HeaderBytes(231, 7, 1, 3) \o <<83, 83, 84, 65>> \o Fill(12, 0),
    HeaderBytes(231, 7, 1, 0)
      \o Ramp(size["PacketMotionData"] - size["PacketHeader"]),
    HeaderBytes(231, 7, 1, 4)
      \o Fill(size["PacketParticipantsData"] - size["PacketHeader"], 255),
    << >>,
    SubSeq(HeaderBytes(231, 7, 1, 3), 1, 28),
    HeaderBytes(231, 7, 1, 3),
    HeaderBytes(231, 7, 1, 3) \o FTLP \o Fill(11, 1),
    HeaderBytes(230, 7, 1, 3) \o FTLP \o Fill(12, 1),
    HeaderBytes(231, 7, 1, 14) \o Fill(1320, 1),
    HeaderBytes(231, 7, 1, 3) \o Fill(RecvSize, 1) }

\* a receive loop: get is called on one datagram after another; the
\* client may canonicalise the record it got and note how a call ended
NextStream ==
  \/ \E d \in StreamDatagrams : Get(d)
  \/ ToDict
  \/ Remember

SpecStream ==
  Init /\ [][NextStream]_vars

\* the datagrams the threads receive: two well-formed events of different
\* bytes, one of an unlisted packet id, one too short for a header
ThreadDatagrams ==
  { HeaderBytes(231, 7, 1, 3) \o FTLP
      \o <<7, 224, 233, 246, 66, 9, 3, 1, 16, 0, 32, 65>>,
    HeaderBytes(231, 7, 1, 3) \o <<83, 83, 84, 65>> \o Fill(12, 0),
    HeaderBytes(231, 7, 1, 14) \o Fill(16, 1),
    SubSeq(HeaderBytes(231, 7, 1, 3), 1, 28) }

\* several threads call get on the shared listener and canonicalise what
\* they got; their steps interleave in any order
NextThreads ==
  \/ \E t \in Threads : \E d \in ThreadDatagrams : get_recv(t, d)
  \/ \E t \in Threads : get_header(t)
  \/ \E t \in Threads : get_lookup(t)
  \/ \E t \in Threads : get_unpack(t)
  \/ \E t \in Threads : thread_to_dict(t)

SpecThreads ==
  Init /\ [][NextThreads]_vars

\* the buffers the client decodes and then writes to: a lap history entry
\* with a spare byte, a tyre set, a buffer one byte short, and an event
\* datagram
WriteBuffers ==
  { <<"LapHistoryData", Ramp(size["LapHistoryData"] + 1)>>,
    <<"TyreSetData", Fill(size["TyreSetData"], 1)>>,
    <<"TyreSetData", Fill(size["TyreSetData"] - 1, 1)>>,
    <<"PacketEventData", HeaderBytes(231, 7, 1, 3) \o FTLP
        \o <<7, 224, 233, 246, 66, 9, 3, 1, 16, 0, 32, 65>>>> }

\* the datagrams get receives in between
WriteDatagrams ==
  { HeaderBytes(231, 7, 1, 3) \o <<83, 83, 84, 65>> \o Fill(12, 0),
    HeaderBytes(231, 7, 1, 14) \o Fill(16, 1) }

\* the positions the client writes at (the last one lies past the end of
\* the record in the buffer with a spare byte) and the bytes it writes
WritePositions ==
  {1, 7, size["LapHistoryData"] + 1}

WriteBytes ==
  {0, 255}

\* the client decodes buffers, overwrites bytes of the buffer it decoded
\* from, and goes on using the record
NextBuffers ==
  \/ \E b \in WriteBuffers : Unpack(b[1], b[2])
  \/ \E d \in WriteDatagrams : Get(d)
  \/ \E i \in WritePositions : \E b \in WriteBytes : Overwrite(i, b)
  \/ ToDict
  \/ Pack
  \/ Remember

SpecBuffers ==
  Init /\ [][NextBuffers]_vars

(***************************************************************************)
(* Vocabulary of the properties.                                           *)
(***************************************************************************)
\* the last get / unpack call returned a record
Returned ==
  record # NoRecord

\* the state results from a TelemetryListener.get call
FromGet ==
  Len(steps) > 0 /\ steps[1] = "header"

\* the fourteen keys (2023, 1, 0..13)
RegisteredKeys ==
  { <<2023, 1, k>> : k \in 0..13 }

\* the header triple written in the first seven bytes of a buffer:
\* packet_format (signed 16 bit), packet_version, packet_id
RawKey(p) ==
  << IF p[1] + 256 * p[2] >= 32768 THEN p[1] + 256 * p[2] - 65536
     ELSE p[1] + 256 * p[2],
     p[6], p[7] >>

(***************************************************************************)
(* C1 (as stated): unpack succeeds only when the buffer is exactly as long *)
(* as the layout; a longer buffer is rejected, never cut to its first      *)
(* size() bytes.  The code accepts every longer buffer.                    *)
(***************************************************************************)
C1_ExactLengthOnly ==
  Returned => Len(packet) = size[record.layout]

(***************************************************************************)
(* C1 (amended): L.unpack(b) returns a record exactly when                 *)
(* len(b) >= L.size(); a shorter buffer raises ValueError and is never     *)
(* zero-padded; the record of a longer buffer is its first size() bytes.   *)
(***************************************************************************)
C1_UnpackLength ==
  cls # "" =>
    /\ Returned <=> Len(packet) >= size[cls]
    /\ Returned => /\ record.layout = cls
                   /\ Len(record.raw) = size[cls]
                   /\ \A i \in 1..size[cls] : record.raw[i] = packet[i]
    /\ ~Returned => outcome = "ValueError"

\* a direct unpack call was given one byte too many and returned a record
C1_Witness ==
  /\ last = "unpack"
  /\ Returned
  /\ Len(packet) = size[cls] + 1

(***************************************************************************)
(* C2 (as stated): the header is 24 bytes and the first body field of a    *)
(* decoded packet starts at offset 24.                                     *)
(***************************************************************************)
C2_Header24 ==
  (FromGet /\ Returned) =>
    /\ size["PacketHeader"] = 24
    /\ offsetof[record.layout][2] = 24

(***************************************************************************)
(* C2 (amended): the header is exactly 29 bytes: PacketHeader.size() = 29, *)
(* and in each of the 14 registered layouts the header is the first field, *)
(* at bytes 0..28, so that the first body field starts at offset 29; get   *)
(* returns no record for a buffer shorter than 29 bytes.                   *)
(***************************************************************************)
C2_Header29 ==
  /\ size["PacketHeader"] = 29
  /\ \A k \in DOMAIN HEADER_FIELD_TO_PACKET_TYPE :
       /\ Fields(HEADER_FIELD_TO_PACKET_TYPE[k])[1] = <<"header", Rec("PacketHeader")>>
       /\ offsetof[HEADER_FIELD_TO_PACKET_TYPE[k]][1] = 0
       /\ offsetof[HEADER_FIELD_TO_PACKET_TYPE[k]][2] = 29
  /\ (FromGet /\ Returned) =>
       /\ Len(packet) >= 29
       /\ offsetof[record.layout][2] = 29
  /\ (FromGet /\ Len(steps) > 1) => nread >= 29

\* get decoded a packet whose body starts right after a 29-byte header
C2_Witness ==
  /\ FromGet
  /\ Returned
  /\ nread > 29
  /\ offsetof[record.layout][2] = 29

(***************************************************************************)
(* C3: the dispatch table has exactly the 14 keys (2023, 1, 0..13); each   *)
(* maps to one layout and no two keys map to the same layout; a record     *)
(* returned by get is of the layout of its key, and of no other key's.     *)
(***************************************************************************)
C3_DispatchTable ==
  /\ DOMAIN HEADER_FIELD_TO_PACKET_TYPE = RegisteredKeys
  /\ Cardinality(DOMAIN HEADER_FIELD_TO_PACKET_TYPE) = 14
  /\ \A k \in RegisteredKeys : HEADER_FIELD_TO_PACKET_TYPE[k] \in LayoutNames
  /\ \A k1, k2 \in RegisteredKeys :
       HEADER_FIELD_TO_PACKET_TYPE[k1] = HEADER_FIELD_TO_PACKET_TYPE[k2] => k1 = k2
  /\ (FromGet /\ Returned) =>
       /\ RawKey(packet) \in RegisteredKeys
       /\ \A k \in RegisteredKeys :
            HEADER_FIELD_TO_PACKET_TYPE[k] = record.layout <=> k = RawKey(packet)

\* get resolved the last key of the table
C3_Witness ==
  /\ FromGet
  /\ Returned
  /\ RawKey(packet) = <<2023, 1, 13>>
  /\ record.layout = "PacketMotionExData"

(***************************************************************************)
(* C4: a received buffer whose header triple is not one of the 14          *)
(* registered keys makes get fail with an error and return no record; it   *)
(* is never decoded with a default or fallback layout.                     *)
(***************************************************************************)
C4_UnlistedKeyFails ==
  (FromGet /\ (Len(packet) < 7 \/ RawKey(packet) \notin RegisteredKeys)) =>
    /\ outcome \in {"KeyError", "ValueError"}
    /\ ~Returned
    /\ cls = ""
    /\ (Len(packet) >= 29 => outcome = "KeyError")

\* a buffer as long as a motion packet, keyed (2023, 1, 14), was refused
C4_Witness ==
  /\ FromGet
  /\ Len(packet) = 1349
  /\ RawKey(packet) = <<2023, 1, 14>>
  /\ outcome = "KeyError"

(***************************************************************************)
(* C5: for a buffer shorter than 24 bytes get fails with an error at the   *)
(* header decode, before any dispatch lookup or body decode, and no call   *)
(* reads a byte beyond the end of its buffer.                              *)
(***************************************************************************)
C5_ShortBufferFails ==
  /\ (FromGet /\ Len(packet) < 24) =>
       /\ outcome = "ValueError"
       /\ steps = << "header" >>
       /\ key = << >>
       /\ ~Returned
  /\ nread <= Len(packet)

\* a 23-byte buffer was refused at the header decode
C5_Witness ==
  /\ FromGet
  /\ Len(packet) = 23
  /\ outcome = "ValueError"
  /\ steps = << "header" >>

(***************************************************************************)
(* Vocabulary of the event properties.  An event packet is 45 bytes: the   *)
(* code is bytes 29..32 (packet[30..33]) and the union region bytes 33..44 *)
(* (packet[34..45]).                                                       *)
(***************************************************************************)
\* to_dict was just called on an event record returned by get
EventDict ==
  /\ FromGet
  /\ Returned
  /\ record.layout = "PacketEventData"
  /\ outcome = "dict"

\* the 4-byte event code of the buffer
CodeOf(p) ==
  SubSeq(p, 30, 33)

\* the value stored in a dict under a key
Lookup(d, k) ==
  d[CHOOSE i \in 1..Len(d) : d[i][1] = k][2]

\* the keys of a dict, in order
Keys(d) ==
  [i \in 1..Len(d) |-> d[i][1]]

\* the twelve members of the event union, in declaration order
MemberNames ==
  << "fastest_lap", "retirement", "team_mate_in_pits", "race_winner",
     "penalty", "speed_trap", "start_lights", "drive_through_penalty_served",
     "stop_go_penalty_served", "flashback", "buttons", "overtake" >>

\* byte width of the sub-record each member declares
MemberBytes ==
  ("fastest_lap" :> 5) @@ ("retirement" :> 1) @@ ("team_mate_in_pits" :> 1)
  @@ ("race_winner" :> 1) @@ ("penalty" :> 7) @@ ("speed_trap" :> 12)
  @@ ("start_lights" :> 1) @@ ("drive_through_penalty_served" :> 1)
  @@ ("stop_go_penalty_served" :> 1) @@ ("flashback" :> 8)
  @@ ("buttons" :> 4) @@ ("overtake" :> 2) @@ ("" :> 0)

\* 123.456789f, the float in bytes 1..4 of two of the payloads
LapTimeBits ==
  << "f32", 0, 133, 7793120 >>

(***************************************************************************)
(* C6 (as stated): decoding an event constructs only the sub-record its    *)
(* code selects; for "FTLP" the canonical record exposes the fastest-lap   *)
(* fields only and no other variant's fields are populated.                *)
(***************************************************************************)
C6_OnlySelectedVariant ==
  (EventDict /\ CodeOf(packet) = FTLP) =>
    Keys(Lookup(canon, "event_details")) = << "fastest_lap" >>

(***************************************************************************)
(* C6 (amended): decoding an event packet never consults                   *)
(* event_string_code: the record exposes the 4 code bytes and all 12 union *)
(* members, each an interpretation of the same payload bytes from the      *)
(* start of the union.  For code "FTLP" the canonical record holds, under  *)
(* fastest_lap, vehicle_idx = payload byte 0 and lap_time = the float of   *)
(* payload bytes 1..4 rounded to 3 decimals, and it holds the other 11     *)
(* members' fields as well.                                                *)
(***************************************************************************)
C6_AllVariantsExposed ==
  (EventDict /\ CodeOf(packet) = FTLP) =>
    /\ Keys(canon) = << "header", "event_string_code", "event_details" >>
    /\ Keys(Lookup(canon, "event_details")) = MemberNames
    /\ Keys(Lookup(Lookup(canon, "event_details"), "fastest_lap"))
         = << "vehicle_idx", "lap_time" >>
    /\ Lookup(Lookup(Lookup(canon, "event_details"), "fastest_lap"), "vehicle_idx")
         = packet[34]
    /\ (SubSeq(packet, 35, 38) = <<224, 233, 246, 66>> =>
          Lookup(Lookup(Lookup(canon, "event_details"), "fastest_lap"), "lap_time")
            = << "dec3", 0, 123457 >>)
    /\ Lookup(Lookup(Lookup(canon, "event_details"), "retirement"), "vehicle_idx")
         = packet[34]
    /\ Lookup(Lookup(Lookup(canon, "event_details"), "overtake"),
              "being_overtaken_vehicle_idx") = packet[35]

\* an FTLP event with vehicle 7 and lap time 123.456789 was canonicalised
C6_Witness ==
  /\ EventDict
  /\ CodeOf(packet) = FTLP
  /\ SubSeq(packet, 34, 38) = <<7, 224, 233, 246, 66>>
  /\ Lookup(Lookup(Lookup(canon, "event_details"), "fastest_lap"), "lap_time")
       = << "dec3", 0, 123457 >>

(***************************************************************************)
(* C7 (as stated): an event packet whose code is not one of the 19 known   *)
(* codes fails with an unknown-event-code error and returns no record.     *)
(***************************************************************************)
C7_UnknownCodeFails ==
  (FromGet /\ Len(packet) >= 45 /\ RawKey(packet) = <<2023, 1, 3>>
     /\ CodeOf(packet) \notin KnownCodes) =>
    ~Returned

(***************************************************************************)
(* C7 (amended): event_string_code is not validated: an event packet of at *)
(* least PacketEventData.size() bytes decodes to a record whatever its 4   *)
(* code bytes are, known or not, and the record and its canonical form     *)
(* expose those 4 bytes as read; no unknown-event-code error is raised.    *)
(***************************************************************************)
C7_CodeNotValidated ==
  (FromGet /\ Len(packet) >= 45 /\ RawKey(packet) = <<2023, 1, 3>>) =>
    /\ Returned
    /\ record.layout = "PacketEventData"
    /\ outcome \in {"record", "dict"}
    /\ SubSeq(record.raw, 30, 33) = CodeOf(packet)
    /\ (outcome = "dict" =>
          /\ Len(canon) >= 2
          /\ canon[2] = << "event_string_code",
                           << packet[30], packet[31], packet[32], packet[33] >> >>)

\* an event coded "XXXX" was decoded and canonicalised
C7_Witness ==
  /\ EventDict
  /\ CodeOf(packet) = <<88, 88, 88, 88>>
  /\ canon[2][2] = <<88, 88, 88, 88>>

(***************************************************************************)
(* C8 (as stated): an event with a payload-free code (SSTA, SEND, DRSE,    *)
(* DRSD, LGOT, RDFL) decodes to a marker with zero payload fields: its     *)
(* canonical form contains no sub-record field.                            *)
(***************************************************************************)
C8_MarkerHasNoFields ==
  (EventDict /\ CodeOf(packet) \in PayloadFreeCodes) =>
    Lookup(canon, "event_details") = << >>

(***************************************************************************)
(* C8 (amended): an event with a payload-free code decodes successfully,   *)
(* never with an error, but not to an empty marker: the decoded record and *)
(* its canonical form contain all 12 sub-records, each filled from the     *)
(* union bytes of the buffer.                                              *)
(***************************************************************************)
C8_MarkerDecodesAllMembers ==
  /\ (FromGet /\ Len(packet) >= 45 /\ RawKey(packet) = <<2023, 1, 3>>
        /\ CodeOf(packet) \in PayloadFreeCodes) =>
       /\ Returned
       /\ outcome \in {"record", "dict"}
       /\ Len(record.raw) = 45
  /\ (EventDict /\ CodeOf(packet) \in PayloadFreeCodes) =>
       /\ Len(Lookup(canon, "event_details")) = 12
       /\ \A m \in 1..12 :
            /\ Lookup(canon, "event_details")[m][1] = MemberNames[m]
            /\ Len(Lookup(canon, "event_details")[m][2]) >= 1
       /\ Lookup(Lookup(Lookup(canon, "event_details"), "start_lights"), "num_lights")
            = packet[34]
       /\ Lookup(Lookup(Lookup(canon, "event_details"), "penalty"), "places_gained")
            = packet[40]

\* an "SSTA" event with non-zero union bytes was canonicalised
C8_Witness ==
  /\ EventDict
  /\ CodeOf(packet) = <<83, 83, 84, 65>>
  /\ packet[34] = 7
  /\ Lookup(Lookup(Lookup(canon, "event_details"), "start_lights"), "num_lights") = 7

(***************************************************************************)
(* C9.  Two event buffers that agree on the header, the code and the first *)
(* k union bytes agree with the buffer that has zeros after those k bytes; *)
(* so the canonical output is independent of the trailing bytes exactly    *)
(* when it equals the output for that buffer.                              *)
(***************************************************************************)
\* the record with its union bytes after the first k set to zero
Masked(r, k) ==
  [layout |-> r.layout,
   raw |-> [i \in 1..Len(r.raw) |-> IF i > 33 + k THEN 0 ELSE r.raw[i]]]

\* the member the code of the record's buffer selects ("" = none)
Selected ==
  EventMember[CodeOf(packet)]

(***************************************************************************)
(* C9 (as stated): for an event whose code selects a sub-record of k       *)
(* bytes, to_dict does not depend on the union bytes beyond the first k.   *)
(***************************************************************************)
C9_TrailingBytesIgnored ==
  (EventDict /\ CodeOf(packet) \in KnownCodes) =>
    canon = to_dict("PacketEventData", Masked(record, MemberBytes[Selected]).raw, 0)

(***************************************************************************)
(* C9 (amended): for an event whose code selects a sub-record of k bytes,  *)
(* the entry of that sub-record in the canonical output does not depend on *)
(* the union bytes beyond the first k; the canonical output as a whole     *)
(* does, because it renders all 12 members, the larger ones included.      *)
(***************************************************************************)
C9_SelectedEntryIgnoresTrailing ==
  (EventDict /\ CodeOf(packet) \in KnownCodes /\ Selected # "") =>
    Lookup(Lookup(canon, "event_details"), Selected)
      = Lookup(Lookup(to_dict("PacketEventData",
                              Masked(record, MemberBytes[Selected]).raw, 0),
                      "event_details"), Selected)

\* an FTLP event whose union bytes after the first 5 are not all zero
C9_Witness ==
  /\ EventDict
  /\ CodeOf(packet) = FTLP
  /\ packet[39] # 0
  /\ canon # to_dict("PacketEventData", Masked(record, 5).raw, 0)

(***************************************************************************)
(* C10: every layout's size() is the sum of its field widths with no       *)
(* padding, and each field sits at the cumulative offset of the fields     *)
(* declared before it (scalar = its width, array = arity x element width,  *)
(* nested record = its own size()); the event union is as large as its     *)
(* largest member (SpeedTrap, 12 bytes), so that PacketEventData.size() =  *)
(* PacketHeader.size() + 4 + 12; a decoded record holds exactly that many  *)
(* bytes and its fields are read at those offsets.                         *)
(***************************************************************************)
RECURSIVE WidthSum(_, _, _)

\* declared width of a field, taken from the declaration alone
DeclaredWidth(t) ==
  (IF t.n = 0 THEN 1 ELSE t.n) * (IF t.kind = "rec" THEN size[t.name] ELSE t.w)

\* sum of the declared widths of fields lo..hi
WidthSum(nm, lo, hi) ==
  IF lo > hi THEN 0
  ELSE IF lo = hi THEN DeclaredWidth(FieldType(nm, lo))
  ELSE WidthSum(nm, lo, (lo + hi) \div 2) + WidthSum(nm, ((lo + hi) \div 2) + 1, hi)

PackedLayouts ==
  /\ \A nm \in LayoutNames \ {"EventDataDetails"} :
       /\ size[nm] = WidthSum(nm, 1, NumFields(nm))
       /\ \A i \in 1..NumFields(nm) : offsetof[nm][i] = WidthSum(nm, 1, i - 1)
  /\ \A i \in 1..NumFields("EventDataDetails") : offsetof["EventDataDetails"][i] = 0
  /\ \A i \in 1..NumFields("EventDataDetails") :
       size["EventDataDetails"] >= DeclaredWidth(FieldType("EventDataDetails", i))
  /\ size["EventDataDetails"] = size["SpeedTrap"]
  /\ size["SpeedTrap"] = 12
  /\ size["PacketEventData"] = size["PacketHeader"] + 4 + 12

C10_PackedLayouts ==
  /\ PackedLayouts
  /\ Returned =>
       Len(record.raw) = IF record.layout = "EventDataDetails" THEN 12
                         ELSE WidthSum(record.layout, 1, NumFields(record.layout))
  /\ (FromGet /\ Returned /\ outcome = "dict") =>
       /\ Lookup(Lookup(canon, "header"), "packet_id") = packet[7]
       /\ Lookup(Lookup(canon, "header"), "secondary_player_car_index") = packet[29]
  /\ EventDict =>
       Lookup(Lookup(Lookup(canon, "event_details"), "speed_trap"),
              "fastest_vehicle_idx_in_sSession") = packet[41]

\* a 45-byte event record was decoded and canonicalised
C10_Witness ==
  /\ EventDict
  /\ Len(record.raw) = 45
  /\ packet[41] = 1
  /\ Lookup(Lookup(Lookup(canon, "event_details"), "speed_trap"),
            "fastest_vehicle_idx_in_sSession") = 1

(***************************************************************************)
(* C11 (as stated): every registered layout has the size its documentation *)
(* states; in particular a record that get returns for a lap data, car     *)
(* damage, session history, tyre sets or motion-ex packet has read and     *)
(* holds the number of bytes the docstring of its layout gives (1131, 953, *)
(* 1460, 231, 217).  The motion-ex layout declares m_wheelVertForce as one *)
(* float and is 205 bytes long.                                            *)
(***************************************************************************)
\* the "Size:" lines of the docstrings
DocumentedSize ==
  ("PacketLapData" :> 1131) @@ ("PacketCarDamageData" :> 953)
    @@ ("PacketSessionHistoryData" :> 1460) @@ ("PacketTyreSetsData" :> 231)
    @@ ("PacketMotionExData" :> 217)

C11_DocumentedSizes ==
  (FromGet /\ Returned /\ record.layout \in DOMAIN DocumentedSize) =>
    /\ size[record.layout] = DocumentedSize[record.layout]
    /\ nread = DocumentedSize[record.layout]
    /\ Len(record.raw) = DocumentedSize[record.layout]

(***************************************************************************)
(* C12: every multi-byte integer field is decoded little-endian: the value *)
(* of a w-byte field at offset o is the sum of b[o+i] * 256^i, read as     *)
(* two's complement when the field is signed.  Checked on the canonical    *)
(* dict of every layout decoded on its own (16-bit fields as numbers,      *)
(* wider ones in 16-bit units, least significant first), and on the        *)
(* sub-records reached through the event union.                            *)
(***************************************************************************)
\* the little-endian value of the w-byte integer at offset o of buffer p
LittleEndianValue(t, p, o) ==
  IF t.w = 2
  THEN IF t.signed /\ p[o + 1] + 256 * p[o + 2] >= 32768
       THEN p[o + 1] + 256 * p[o + 2] - 65536
       ELSE p[o + 1] + 256 * p[o + 2]
  ELSE [j \in 1..(t.w \div 2) |-> p[o + 2 * j - 1] + 256 * p[o + 2 * j]]

C12_LittleEndian ==
  /\ (Returned /\ outcome = "dict") =>
       \A k \in 1..Len(canon) :
         LET i == attrOf[record.layout][k]
             t == FieldType(record.layout, i)
             o == offsetof[record.layout][i]
         IN  (t.kind = "int" /\ t.w >= 2) =>
               canon[k][2] =
                 IF t.n = 0 THEN LittleEndianValue(t, packet, o)
                 ELSE [j \in 1..t.n |->
                         LittleEndianValue(t, packet, o + (j - 1) * t.w)]
  /\ EventDict =>
       /\ Lookup(Lookup(Lookup(canon, "event_details"), "flashback"),
                 "flashback_frame_identifier")
            = << packet[34] + 256 * packet[35], packet[36] + 256 * packet[37] >>
       /\ Lookup(Lookup(Lookup(canon, "event_details"), "buttons"),
                 "button_status")
            = << packet[34] + 256 * packet[35], packet[36] + 256 * packet[37] >>
       /\ Lookup(Lookup(canon, "header"), "packet_format") = 2023
       /\ Lookup(Lookup(canon, "header"), "overall_frame_identifier")
            = << 10001, 32768 >>

\* a signed 16-bit field with bytes 0x9A 0x9B was canonicalised as -25702
C12_Witness ==
  /\ Returned
  /\ outcome = "dict"
  /\ record.layout = "CarMotionData"
  /\ packet[25] = 154
  /\ packet[26] = 155
  /\ Lookup(canon, "world_forward_dir_x") = -25702

(***************************************************************************)
(* C13: the 48-byte name of ParticipantData and LobbyInfoData is           *)
(* canonicalised as the bytes before its first null byte, or all 48 bytes  *)
(* when there is none; bytes after the first null never appear.            *)
(* Checked for names of ASCII bytes, on records decoded on their own and   *)
(* on the participants of a packet returned by get.                        *)
(***************************************************************************)
\* n is the text of the bytes of nb that precede its first null
IsNamePrefix(n, nb) ==
  /\ Len(n) <= Len(nb)
  /\ \A i \in 1..Len(n) : n[i] = nb[i] /\ nb[i] # 0
  /\ Len(n) < Len(nb) => nb[Len(n) + 1] = 0

\* the 48 bytes at offset o of the buffer
NameBytesAt(p, o) ==
  SubSeq(p, o + 1, o + 48)

IsAscii(bs) ==
  \A i \in 1..Len(bs) : bs[i] < 128

C13_NameUpToNull ==
  /\ (Returned /\ outcome = "dict" /\ record.layout = "ParticipantData"
        /\ IsAscii(NameBytesAt(packet, 7))) =>
       IsNamePrefix(Lookup(canon, "name"), NameBytesAt(packet, 7))
  /\ (Returned /\ outcome = "dict" /\ record.layout = "LobbyInfoData"
        /\ IsAscii(NameBytesAt(packet, 4))) =>
       IsNamePrefix(Lookup(canon, "name"), NameBytesAt(packet, 4))
  /\ (Returned /\ outcome = "dict"
        /\ record.layout = "PacketParticipantsData") =>
       \A j \in 1..22 :
         IsAscii(NameBytesAt(packet, 30 + 58 * (j - 1) + 7)) =>
           IsNamePrefix(Lookup(Lookup(canon, "participants")[j], "name"),
                        NameBytesAt(packet, 30 + 58 * (j - 1) + 7))
  /\ (Returned /\ outcome = "dict" /\ record.layout = "ParticipantData"
        /\ SubSeq(packet, 8, 14) = <<80, 195, 169, 114, 101, 122, 0>>) =>
       Lookup(canon, "name") = <<80, 233, 114, 101, 122>>

\* a name field holding "Max", a null and then "Xyz" was canonicalised
\* as "Max"
C13_Witness ==
  /\ Returned
  /\ outcome = "dict"
  /\ record.layout = "ParticipantData"
  /\ SubSeq(packet, 8, 14) = <<77, 97, 120, 0, 88, 121, 122>>
  /\ Lookup(canon, "name") = <<77, 97, 120>>

(***************************************************************************)
(* C14 (as stated): a packet whose name field holds bytes that are not     *)
(* valid UTF-8 is rejected by the decode itself: get / unpack return no    *)
(* record for it.  The code decodes it; the error is raised by to_dict.    *)
(***************************************************************************)
\* the layouts with a name field, and the offset of their first name
TextOffset ==
  ("ParticipantData" :> 7) @@ ("LobbyInfoData" :> 4)
    @@ ("PacketParticipantsData" :> 37) @@ ("PacketLobbyInfoData" :> 34)

\* the buffer of the last get / unpack call holds a whole record of a
\* layout with names, and its first name starts with the byte 0xFF
InvalidText ==
  /\ cls \in DOMAIN TextOffset
  /\ Len(packet) >= size[cls]
  /\ packet[TextOffset[cls] + 1] = 255

C14_RejectedAtDecode ==
  InvalidText => ~Returned

(***************************************************************************)
(* C14 (amended): get / unpack decode such a packet and return its record; *)
(* the invalid-text error (UnicodeDecodeError) is raised to the caller     *)
(* when the record is canonicalised by to_dict, which then returns no      *)
(* dict: nothing is substituted for the invalid bytes.                     *)
(***************************************************************************)
C14_RaisedOnCanonicalisation ==
  InvalidText =>
    /\ Returned
    /\ last \in {"get", "unpack"} => outcome = "record"
    /\ last = "to_dict" => outcome = "UnicodeDecodeError" /\ canon = << >>

\* get returned a participants record whose names are not UTF-8, and
\* to_dict on it raised
C14_Witness ==
  /\ InvalidText
  /\ FromGet
  /\ Returned
  /\ record.layout = "PacketParticipantsData"
  /\ last = "to_dict"
  /\ outcome = "UnicodeDecodeError"

(***************************************************************************)
(* C15: a scalar float field is rounded to 3 decimals when it is           *)
(* canonicalised by to_dict / get_value (once: the dict entry of a nested  *)
(* record is rounded like a top-level one), never when it is decoded: the  *)
(* attribute read gives the float as decoded.  123.456789f reads as its    *)
(* 32-bit pattern and canonicalises as 123.457.                            *)
(***************************************************************************)
\* the type of the field the last get_value / attribute read named
ArgType ==
  FieldType(record.layout, get_attr(record.layout, arg))

\* v is a float with at most 3 decimals: a number of thousandths, or a
\* decoded float left alone (inf, nan, or too large to have a fraction
\* finer than 1/8)
IsRounded3(v) ==
  \/ v[1] = "dec3"
  \/ v[1] = "f32" /\ v[3] >= 147
  \/ v[1] = "f64" /\ v[3] >= 1040

\* v is the float as decoded from the w bytes at offset o of buffer p
IsRawFloat(v, p, o, w) ==
  IF w = 4
  THEN /\ v[1] = "f32"
       /\ v[2] = p[o + 4] \div 128
       /\ v[3] = (p[o + 4] % 128) * 2 + (p[o + 3] \div 128)
       /\ v[4] = (p[o + 3] % 128) * 65536 + p[o + 2] * 256 + p[o + 1]
  ELSE /\ v[1] = "f64"
       /\ v[2] = p[o + 8] \div 128
       /\ v[3] = (p[o + 8] % 128) * 16 + (p[o + 7] \div 16)

C15_RoundedWhenCanonicalised ==
  /\ (last = "getattr" /\ ArgType.kind = "float") =>
       IsRawFloat(result, packet,
                  offsetof[record.layout][get_attr(record.layout, arg)],
                  ArgType.w)
  /\ (last = "get_value" /\ outcome = "value" /\ ArgType.kind = "float"
        /\ ArgType.n = 0) =>
       IsRounded3(result)
  /\ (last = "to_dict" /\ outcome = "dict") =>
       \A k \in 1..Len(canon) :
         LET t == FieldType(record.layout, attrOf[record.layout][k])
         IN  (t.kind = "float" /\ t.n = 0) => IsRounded3(canon[k][2])
  /\ (record.layout = "PacketHeader" /\ SubSeq(packet, 16, 19) = <<224, 233, 246, 66>>) =>
       /\ (last = "getattr" /\ arg = "session_time") => result = LapTimeBits
       /\ (last = "get_value" /\ arg = "session_time") =>
            result = << "dec3", 0, 123457 >>
       /\ (last = "to_dict" /\ outcome = "dict") =>
            Lookup(canon, "session_time") = << "dec3", 0, 123457 >>
  /\ (last = "to_dict" /\ EventDict) =>
       /\ Lookup(Lookup(canon, "header"), "session_time") = << "dec3", 0, 123457 >>
       /\ SubSeq(packet, 35, 38) = <<224, 233, 246, 66>> =>
            Lookup(Lookup(Lookup(canon, "event_details"), "fastest_lap"),
                   "lap_time") = << "dec3", 0, 123457 >>

\* get_value of the header's session_time returned 123.457
C15_Witness ==
  /\ last = "get_value"
  /\ record.layout = "PacketHeader"
  /\ arg = "session_time"
  /\ SubSeq(packet, 16, 19) = <<224, 233, 246, 66>>
  /\ result = << "dec3", 0, 123457 >>

(***************************************************************************)
(* C16: canonicalisation leaves the record unchanged: when the client has  *)
(* kept the bytes r.pack() returned and has since called to_dict,          *)
(* to_json, get_value or repr on r any number of times, r.pack() returns   *)
(* the same bytes.                                                         *)
(***************************************************************************)
C16_PackAfterCanonicalisation ==
  (last = "pack" /\ memo.call = "pack" /\ memo.since = "canonicalised") =>
    result = memo.value

\* pack was called again after canonicalising calls and returned the 45
\* bytes kept from the first call
C16_Witness ==
  /\ last = "pack"
  /\ memo.call = "pack"
  /\ memo.since = "canonicalised"
  /\ record.layout = "PacketEventData"
  /\ Len(result) = 45
  /\ result = memo.value

C18_OneEntryPerField ==
  (Returned /\ outcome = "dict") =>
    /\ Len(canon) = NumFields(record.layout)
    /\ \A i \in 1..Len(canon) : canon[i][1] = FieldName(record.layout, i)

(***************************************************************************)
(* C19: to_json emits sorted keys at every nesting level and 2-space       *)
(* indentation: record.to_json() (and repr) take no arguments that could   *)
(* change either, and the module-level to_json writes sorted keys whatever *)
(* keyword arguments it is given.  The key order of every layout is the    *)
(* order of Python's string comparison.                                    *)
(***************************************************************************)
RECURSIVE SortedTree(_, _)

\* the keys of the dict d of layout nm, and of every dict below it, are
\* written in ascending order
SortedTree(nm, d) ==
  /\ Len(d) = Len(keysOf[nm])
  /\ \A k \in 1..(Len(d) - 1) : KeyRank[d[k][1]] < KeyRank[d[k + 1][1]]
  /\ \A k \in 1..Len(d) :
       LET t == FieldType(nm, get_attr(nm, d[k][1]))
       IN  /\ (t.kind = "rec" /\ t.n = 0) => SortedTree(t.name, d[k][2])
           /\ (t.kind = "rec" /\ t.n > 0) =>
                \A j \in 1..t.n : SortedTree(t.name, d[k][2][j])

C19_SortedKeysIndent2 ==
  /\ (outcome = "json" /\ last \in {"to_json", "repr"}) =>
       /\ result.indent = 2
       /\ SortedTree(record.layout, result.obj)
  /\ (outcome = "json" /\ last = "to_json(kwargs)") =>
       SortedTree(record.layout, result.obj)
  /\ \A nm \in LayoutNames :
       \A k \in 1..(Len(keysOf[nm]) - 1) :
         KeyRank[keysOf[nm][writeOrder[nm][TRUE][k]]]
           < KeyRank[keysOf[nm][writeOrder[nm][TRUE][k + 1]]]

\* the module-level to_json was given sort_keys=False and wrote the keys
\* of an event record sorted: event_details first, header last
C19_Witness ==
  /\ last = "to_json(kwargs)"
  /\ outcome = "json"
  /\ "sort_keys" \in DOMAIN arg
  /\ arg["sort_keys"] = FALSE
  /\ record.layout = "PacketEventData"
  /\ result.obj[1][1] = "event_details"
  /\ result.obj[3][1] = "header"

(***************************************************************************)
(* C20: round trip: r.pack() has L.size() bytes, and for a buffer b of     *)
(* exactly L.size() bytes L.unpack(b).pack() = b.                          *)
(***************************************************************************)
C20_RoundTrip ==
  last = "pack" =>
    /\ Len(result) = size[record.layout]
    /\ Len(packet) = size[record.layout] => result = packet
    /\ \A i \in 1..Len(result) : result[i] = packet[i]

\* the 45 bytes of an event datagram ending in null bytes were decoded
\* and packed again
C20_Witness ==
  /\ last = "pack"
  /\ record.layout = "PacketEventData"
  /\ Len(packet) = 45
  /\ packet[45] = 0
  /\ result = packet

(***************************************************************************)
(* C21: over any sequence of datagrams handed to get, how a call ends and  *)
(* what it returns is decided by the bytes of its own datagram: fewer      *)
(* bytes than a header is ValueError, an unlisted key is KeyError, fewer   *)
(* bytes than the layout of the key is ValueError, anything else is the    *)
(* record of that layout over the datagram's first size() bytes --         *)
(* whatever the calls before it were given and however they ended.         *)
(***************************************************************************)
\* how get ends on the bytes p, read off the bytes themselves
OutcomeOf(p) ==
  IF Len(p) < size["PacketHeader"] THEN "ValueError"
  ELSE IF RawKey(p) \notin RegisteredKeys THEN "KeyError"
  ELSE IF Len(p) < size[HEADER_FIELD_TO_PACKET_TYPE[RawKey(p)]]
       THEN "ValueError"
  ELSE "record"

C21_OwnDatagramOnly ==
  last = "get" =>
    /\ outcome = OutcomeOf(packet)
    /\ outcome # "record" => record = NoRecord
    /\ outcome = "record" =>
         /\ record.layout = HEADER_FIELD_TO_PACKET_TYPE[RawKey(packet)]
         /\ record.raw = SubSeq(packet, 1, size[record.layout])

\* a well-formed event datagram was decoded by the call after one that
\* failed with KeyError
C21_Witness ==
  /\ last = "get"
  /\ outcome = "record"
  /\ record.layout = "PacketEventData"
  /\ memo.call = "get"
  /\ memo.value = "KeyError"
  /\ memo.since = "replaced"

(***************************************************************************)
(* C22: get calls whose steps are interleaved in any order by several      *)
(* threads end, each of them, as the call would end alone on its own       *)
(* datagram: the dispatch dict still holds what the module bound in it,    *)
(* the record a call returns is the record of its own datagram, the dict   *)
(* a thread builds is the dict of that record, and no two threads hold     *)
(* the same record object.                                                 *)
(***************************************************************************)
\* the record get returns on the bytes p when it returns one
RecordOf(p) ==
  [layout |-> HEADER_FIELD_TO_PACKET_TYPE[RawKey(p)],
   raw |-> SubSeq(p, 1, size[HEADER_FIELD_TO_PACKET_TYPE[RawKey(p)]])]

C22_ThreadsIndependent ==
  /\ table = HEADER_FIELD_TO_PACKET_TYPE
  /\ \A t \in Threads :
       /\ threads[t].pc = "done" =>
            threads[t].outcome = OutcomeOf(threads[t].packet)
       /\ threads[t].ref > 0 =>
            /\ OutcomeOf(threads[t].packet) = "record"
            /\ heap[threads[t].ref] = RecordOf(threads[t].packet)
       /\ (threads[t].pc = "dict" /\ threads[t].outcome = "dict") =>
            threads[t].canon
              = to_dict(RecordOf(threads[t].packet).layout,
                        RecordOf(threads[t].packet).raw, 0)
  /\ \A t, u \in Threads :
       (t # u /\ threads[t].ref > 0 /\ threads[u].ref > 0) =>
         threads[t].ref # threads[u].ref

\* thread 1 holds the dict of its FTLP event while thread 2, which
\* received the other event, is between the lookup and the unpack
C22_Witness ==
  /\ threads[1].pc = "dict"
  /\ threads[1].outcome = "dict"
  /\ threads[1].packet[30] = 70
  /\ threads[2].pc = "cls"
  /\ threads[2].cls = "PacketEventData"
  /\ threads[2].packet[30] = 83

(***************************************************************************)
(* C23: in PacketEventData every union member is decoded from the first    *)
(* byte after the 4-byte event code, at offset PacketHeader.size() + 4.    *)
(* Every member lies at offset 0 of the union; in FastestLap lap_time lies *)
(* at offset 1, right after the vehicle_idx byte.  For every event         *)
(* datagram, whatever its code, the canonical record holds under every     *)
(* member whose first field is one byte wide the payload byte 0, and under *)
(* fastest_lap.lap_time the float of payload bytes 1..4 (123.456789f,      *)
(* 100.0f and 0.0f in the payloads fed).                                   *)
(***************************************************************************)
\* the members whose first field is a single byte, with that field's name
FirstByteField ==
  << <<"fastest_lap", "vehicle_idx">>, <<"retirement", "vehicle_idx">>,
     <<"team_mate_in_pits", "vehicle_idx">>, <<"race_winner", "vehicle_idx">>,
     <<"penalty", "penalty_type">>, <<"speed_trap", "vehicle_idx">>,
     <<"start_lights", "num_lights">>,
     <<"drive_through_penalty_served", "vehicle_idx">>,
     <<"stop_go_penalty_served", "vehicle_idx">>,
     <<"overtake", "overtaking_vehicle_idx">> >>

\* the floats in bytes 1..4 of the payloads, rounded to 3 decimals:
\* 123.456789f, 100.0f and 0.0f
LapTimeOf ==
  (<<224, 233, 246, 66>> :> << "dec3", 0, 123457 >>)
  @@ (<<0, 0, 200, 66>> :> << "dec3", 0, 100000 >>)
  @@ (<<0, 0, 0, 0>> :> << "dec3", 0, 0 >>)

C23_UnionAtPayloadStart ==
  /\ offsetof["PacketEventData"][get_attr("PacketEventData", "event_details")]
       = size["PacketHeader"] + 4
  /\ \A m \in 1..NumFields("EventDataDetails") :
       offsetof["EventDataDetails"][m] = 0
  /\ offsetof["FastestLap"][get_attr("FastestLap", "vehicle_idx")] = 0
  /\ offsetof["FastestLap"][get_attr("FastestLap", "lap_time")] = 1
  /\ size["FastestLap"] = 5
  /\ EventDict =>
       /\ \A i \in 1..Len(FirstByteField) :
            Lookup(Lookup(Lookup(canon, "event_details"), FirstByteField[i][1]),
                   FirstByteField[i][2])
              = packet[size["PacketHeader"] + 5]
       /\ SubSeq(packet, size["PacketHeader"] + 6, size["PacketHeader"] + 9)
            \in DOMAIN LapTimeOf =>
              Lookup(Lookup(Lookup(canon, "event_details"), "fastest_lap"),
                     "lap_time")
                = LapTimeOf[SubSeq(packet, size["PacketHeader"] + 6,
                                   size["PacketHeader"] + 9)]

\* an FTLP event of vehicle 19 with a lap time of 100.0 was canonicalised
C23_Witness ==
  /\ EventDict
  /\ CodeOf(packet) = FTLP
  /\ packet[34] = 19
  /\ SubSeq(packet, 35, 38) = <<0, 0, 200, 66>>
  /\ Lookup(Lookup(Lookup(canon, "event_details"), "fastest_lap"), "lap_time")
       = << "dec3", 0, 100000 >>

(***************************************************************************)
(* C24: get decodes the header, then looks the key up, then decodes the    *)
(* full record.  A buffer that holds a header with an unlisted key fails   *)
(* with KeyError at the lookup whatever its length, without any layout     *)
(* being tried; ValueError is raised either by the header decode, on a     *)
(* buffer shorter than a header, or by the unpack of the layout the        *)
(* buffer's own key selects, on a buffer shorter than that layout.         *)
(***************************************************************************)
C24_HeaderLookupUnpack ==
  FromGet =>
    /\ steps \in { << "header" >>, << "header", "lookup" >>,
                   << "header", "lookup", "unpack" >> }
    /\ (Len(packet) >= size["PacketHeader"]
          /\ RawKey(packet) \notin RegisteredKeys) =>
         /\ outcome = "KeyError"
         /\ steps = << "header", "lookup" >>
         /\ cls = ""
    /\ outcome = "KeyError" => key = RawKey(packet)
    /\ outcome = "ValueError" =>
         \/ /\ steps = << "header" >>
            /\ Len(packet) < size["PacketHeader"]
         \/ /\ steps = << "header", "lookup", "unpack" >>
            /\ RawKey(packet) \in RegisteredKeys
            /\ cls = HEADER_FIELD_TO_PACKET_TYPE[RawKey(packet)]
            /\ Len(packet) < size[cls]
    /\ Returned => steps = << "header", "lookup", "unpack" >>

\* a buffer of just a header, shorter than every registered layout and
\* keyed (2022, 1, 0), failed at the lookup
C24_Witness ==
  /\ FromGet
  /\ Len(packet) = size["PacketHeader"]
  /\ RawKey(packet) = <<2022, 1, 0>>
  /\ outcome = "KeyError"
  /\ steps = << "header", "lookup" >>

(***************************************************************************)
(* C25: every record get returns is consistent with the key that selected  *)
(* it.  Every registered layout declares the header as its first field, at *)
(* offset 0; so the key get built is the triple in the first bytes of the  *)
(* buffer, the dispatch dict binds that key to the layout of the record,   *)
(* and packet_format, packet_version and packet_id read from the record's  *)
(* header (and found in its dict under "header") are that key.             *)
(***************************************************************************)
\* r.header.k of a record r whose layout has a header field
HeaderField(r, k) ==
  IntValue(FieldType("PacketHeader", get_attr("PacketHeader", k)), r.raw,
           offsetof[r.layout][get_attr(r.layout, "header")]
             + offsetof["PacketHeader"][get_attr("PacketHeader", k)])

C25_RecordMatchesKey ==
  /\ \A k \in RegisteredKeys :
       /\ FieldName(HEADER_FIELD_TO_PACKET_TYPE[k], 1) = "header"
       /\ FieldType(HEADER_FIELD_TO_PACKET_TYPE[k], 1) = Rec("PacketHeader")
       /\ offsetof[HEADER_FIELD_TO_PACKET_TYPE[k]][1] = 0
  /\ (FromGet /\ Returned) =>
       /\ key = RawKey(packet)
       /\ key \in DOMAIN table
       /\ table[key] = record.layout
       /\ << HeaderField(record, "packet_format"),
             HeaderField(record, "packet_version"),
             HeaderField(record, "packet_id") >> = key
       /\ outcome = "dict" =>
            << Lookup(Lookup(canon, "header"), "packet_format"),
               Lookup(Lookup(canon, "header"), "packet_version"),
               Lookup(Lookup(canon, "header"), "packet_id") >> = key

\* a car setup datagram was decoded and canonicalised: its header holds
\* the key (2023, 1, 5)
C25_Witness ==
  /\ FromGet
  /\ Returned
  /\ outcome = "dict"
  /\ record.layout = "PacketCarSetupData"
  /\ key = <<2023, 1, 5>>
  /\ Lookup(Lookup(canon, "header"), "packet_id") = 5

(***************************************************************************)
(* C26 (as stated): within every layout the field names are pairwise       *)
(* distinct, and reading a field by name returns the value stored at that  *)
(* field's own offset.  LapHistoryData names two fields                    *)
(* sector1_time_minutes (at offsets 6 and 12): the name reads the byte at  *)
(* offset 12, and the byte at offset 6 cannot be read by name.             *)
(***************************************************************************)
\* the value stored in the i-th declared field of the record r
StoredAt(r, i) ==
  IF FieldType(r.layout, i).kind = "char"
  THEN CharsValue(FieldType(r.layout, i), r.raw, offsetof[r.layout][i])
  ELSE item_value(FieldType(r.layout, i), r.raw, offsetof[r.layout][i])

C26_FieldsReadableByName ==
  /\ last = "getattr" =>
       \A i \in 1..NumFields(record.layout) :
         FieldName(record.layout, i) = arg => result = StoredAt(record, i)
  /\ \A nm \in LayoutNames :
       \A i, j \in 1..NumFields(nm) :
         i # j => FieldName(nm, i) # FieldName(nm, j)

(***************************************************************************)
(* C27 (as stated): every float anywhere in a canonical tree has been      *)
(* rounded to 3 decimals: float fields, the elements of float arrays, and  *)
(* the floats of records nested in records and in arrays.                  *)
(* _format_array_type appends the elements of a float array as they were   *)
(* read.                                                                   *)
(***************************************************************************)
RECURSIVE FloatsRounded(_, _, _)

\* every float of the dict d of layout nm, and of every dict below it, is
\* rounded; arrays tells whether the elements of float arrays count
FloatsRounded(nm, d, arrays) ==
  \A k \in 1..Len(d) :
    LET t == FieldType(nm, attrOf[nm][k])
    IN  /\ (t.kind = "float" /\ t.n = 0) => IsRounded3(d[k][2])
        /\ (t.kind = "float" /\ t.n > 0 /\ arrays) =>
             \A j \in 1..t.n : IsRounded3(d[k][2][j])
        /\ (t.kind = "rec" /\ t.n = 0) => FloatsRounded(t.name, d[k][2], arrays)
        /\ (t.kind = "rec" /\ t.n > 0) =>
             \A j \in 1..t.n : FloatsRounded(t.name, d[k][2][j], arrays)

C27_EveryFloatRounded ==
  (Returned /\ outcome = "dict") => FloatsRounded(record.layout, canon, TRUE)


\* the wheel fields of the motion-ex packet, as its struct documentation
\* declares them (float ...[4], order RL, RR, FL, FR)
PerWheelFields ==
  { "m_suspensionPosition", "m_suspensionVelocity",
    "m_suspensionAcceleration", "m_wheelSpeed", "m_wheelSlipRatio",
    "m_wheelSlipAngle", "m_wheelLatForce", "m_wheelLongForce",
    "m_wheelVertForce" }

\* C28: in a decoded PacketMotionExData every per-wheel field, the wheel
\* vertical force included, is an array of exactly 4 floats, and the record
\* holds the bytes of all four elements, as the datagram sent them
C28_PerWheelFieldsHaveFourElements ==
  (Returned /\ record.layout = "PacketMotionExData") =>
    \A i \in 1..NumFields("PacketMotionExData") :
      FieldName("PacketMotionExData", i) \in PerWheelFields =>
        /\ FieldType("PacketMotionExData", i).kind = "float"
        /\ FieldType("PacketMotionExData", i).n = 4
        /\ Len(record.raw) >= offsetof["PacketMotionExData"][i] + 16
        /\ \A b \in 1..16 :
             record.raw[offsetof["PacketMotionExData"][i] + b]
               = packet[offsetof["PacketMotionExData"][i] + b]


\* C29: TyreSetData.lap_delta_time is decoded as a signed 16-bit integer:
\* the value is in -32768..32767, and the bytes 0xFF 0xFF decode to -1
C29_LapDeltaTimeSigned ==
  (last = "to_dict" /\ outcome = "dict" /\ record.layout = "TyreSetData") =>
    LET o == offsetof["TyreSetData"][get_attr("TyreSetData", "lap_delta_time")]
        v == Lookup(canon, "lap_delta_time")
    IN  /\ v \in (-32768)..32767
        /\ (record.raw[o + 1] = 255 /\ record.raw[o + 2] = 255) => v = -1


\* C30: a decoded record is an independent copy of its input: right after
\* unpack or get the buffer still holds the bytes the record was copied
\* from, and after the client wrote to the source buffer the record, and
\* what pack and to_dict return for it, are what they were before the write
C30_RecordIndependentOfBuffer ==
  /\ (last \in {"unpack", "get"} /\ Returned) =>
       record.raw = SubSeq(packet, 1, size[record.layout])
  /\ memo.since = "written" =>
       /\ record = memo.of
       /\ (last = "pack" /\ memo.call = "pack") => result = memo.value
       /\ (last = "to_dict" /\ outcome = "dict" /\ memo.call = "to_dict") =>
            canon = memo.value

\* pack returns the kept bytes although the source buffer now differs from
\* the record in one of the record's bytes
C30_Witness ==
  /\ last = "pack"
  /\ memo.call = "pack"
  /\ memo.since = "written"
  /\ result = memo.value
  /\ \E i \in 1..size[record.layout] : packet[i] # record.raw[i]

====
